---- MODULE Spec2Model ----
(***************************************************************************)
(* Pull-history ingestion of EndfieldPass: the paginated fetchers of       *)
(* core/services.py, the background import job, the in-memory session      *)
(* store and the progress tracker of core/views.py.                        *)
(***************************************************************************)
EXTENDS Integers, Sequences, FiniteSets, TLC

VARIABLES
    IMPORT_SESSION_COUNTER, \* views.py:52, the last session id handed out
    IMPORT_SESSIONS,        \* views.py:51, dict session id -> session dict
    IMPORT_PROGRESS,        \* views.py:49, dict session id -> progress dict
    req,                    \* the create_session requests in flight
    job,                    \* the locals of each _run_import_session thread
    poll,                   \* the import_status request in flight
    resp,                   \* the last answer given to a caller, {} when none
    issued,                 \* the session ids handed out, in order
    served,                 \* upstream: the data pages served so far
    quota,                  \* environment: the requests and data pages it offers
    hist,                   \* per session: what the upstream was seen to do
    held,                   \* the session values callers of the store hold
    clock,                  \* the last reading of the wall clock
    call,                   \* the arguments of the pure function under call
    app_json,               \* the MAINTENANCE_MODE row of AppJsonConfig, its cache
    session_store           \* per client: the maintenance bypass flag of its session

vars == <<IMPORT_SESSION_COUNTER, IMPORT_SESSIONS, IMPORT_PROGRESS,
          req, job, poll, resp, issued, served, quota, hist,
          held, clock, call, app_json, session_store>>

----------------------------------------------------------------------------
(* Bounds of the model. *)

MaxRequests == 3
MaxDataPages == 2
MaxPageLen == 2
MaxSeq == 1
MaxPoolList == 1
MaxProgressIds == 2
MaxStored == 2
MaxHeld == 1
MaxClock == 2
MaxRarities == 5
MaxEntries == 2
MaxImports == 2
MaxBanners == 4
MaxClients == 2
MaxRefetch == 3

SessionIds == 1..MaxRequests
PoolIds == {"A", "B"}
RawSeqIds == {""} \cup {ToString(i) : i \in 1..MaxSeq}
SelectedPoolIds == {"", "A"}

\* An upstream record, reduced to the keys the fetchers and the job read:
\* poolId and seqId, "" standing for an absent or empty value.
Items == [poolId : PoolIds, seqId : RawSeqIds]
PageLists(maxlen) == UNION {[1..n -> Items] : n \in 0..maxlen}
PoolLists == UNION {[1..n -> PoolIds \cup {""}] : n \in 0..MaxPoolList}

----------------------------------------------------------------------------
(* Python dicts and small helpers. *)

EmptyDict == <<>>
Get(d, k, default) == IF k \in DOMAIN d THEN d[k] ELSE default
Opt(d, k) == IF k \in DOMAIN d THEN {d[k]} ELSE {}
Update(d, u) ==
    [k \in DOMAIN d \cup DOMAIN u |-> IF k \in DOMAIN u THEN u[k] ELSE d[k]]
Put(d, k, v) == [x \in DOMAIN d \cup {k} |-> IF x = k THEN v ELSE d[x]]
Truthy(s) == s # ""
Min2(a, b) == IF a < b THEN a ELSE b
Max2(a, b) == IF a > b THEN a ELSE b

\* services.py:9-14
CHARACTER_POOL_TYPES ==
    << "E_CharacterGachaPoolType_Standard",
       "E_CharacterGachaPoolType_Special",
       "E_CharacterGachaPoolType_Beginner" >>
WEAPON_SOURCE_POOL_TYPE == "E_WeaponGachaPoolType_Weapon"

\* views.py:586-591: int(value), 0 when value does not parse
_to_int(value) ==
    IF \E i \in 1..MaxSeq : ToString(i) = value
    THEN CHOOSE i \in 1..MaxSeq : ToString(i) = value
    ELSE 0

----------------------------------------------------------------------------
(* Fetcher: core/services.py. *)

\* services.py:98-103: the records of one character page that are kept
RECURSIVE CharKeep(_, _, _, _)
CharKeep(items, pool_type, seen, out) ==
    IF items = <<>> THEN [seen |-> seen, out |-> out]
    ELSE LET item == Head(items)
             sequence_id == item.seqId
         IN  IF Truthy(sequence_id) /\ sequence_id \notin seen
             THEN CharKeep(Tail(items), pool_type, seen \cup {sequence_id},
                      Append(out, Update(item, [source_pool_type |-> pool_type])))
             ELSE CharKeep(Tail(items), pool_type, seen, out)

\* services.py:265-274: the records of one weapon page that are kept
RECURSIVE WeaponKeep(_, _, _, _)
WeaponKeep(items, pool_id, seen, out) ==
    IF items = <<>> THEN [seen |-> seen, out |-> out]
    ELSE LET item == Head(items)
             sequence_id == item.seqId
             item_pool_id == IF Truthy(item.poolId) THEN item.poolId ELSE pool_id
             dedupe_key == IF Truthy(sequence_id)
                           THEN <<item_pool_id, sequence_id>> ELSE <<>>
         IN  IF dedupe_key # <<>> /\ dedupe_key \in seen
             THEN WeaponKeep(Tail(items), pool_id, seen, out)
             ELSE WeaponKeep(Tail(items), pool_id,
                      IF dedupe_key # <<>> THEN seen \cup {dedupe_key} ELSE seen,
                      Append(out, Update(item,
                          [source_pool_type |-> WEAPON_SOURCE_POOL_TYPE])))

\* The locals of one pagination run before its first request:
\* services.py:71-73 and 236-239.
NewRun == [cursor |-> "", seen |-> {}, out |-> <<>>]

\* A pagination loop that does not read hasMore: it goes round again while
\* the last record of the page has a seqId.
FetchStepIgnoresHasMore(kind, pool, run, r) ==
    IF r.kind = "non200" THEN [run |-> run, more |-> FALSE]
    ELSE IF r.code # 0 THEN [run |-> run, more |-> FALSE]
    ELSE IF r.list = <<>> THEN [run |-> run, more |-> FALSE]
    ELSE LET kept == IF kind = "char"
                     THEN CharKeep(r.list, pool, run.seen, run.out)
                     ELSE WeaponKeep(r.list, pool, run.seen, run.out)
             last == r.list[Len(r.list)].seqId
         IN  [run |-> [cursor |-> last, seen |-> kept.seen, out |-> kept.out],
              more |-> Truthy(last)]

\* A pagination loop that gives up what it accumulated when a page is
\* answered with a status other than 200.
FetchStepDropsOnNon200(kind, pool, run, r) ==
    IF r.kind = "non200" THEN [run |-> NewRun, more |-> FALSE]
    ELSE IF r.code # 0 THEN [run |-> run, more |-> FALSE]
    ELSE IF r.list = <<>> THEN [run |-> run, more |-> FALSE]
    ELSE LET kept == IF kind = "char"
                     THEN CharKeep(r.list, pool, run.seen, run.out)
                     ELSE WeaponKeep(r.list, pool, run.seen, run.out)
             last == r.list[Len(r.list)].seqId
         IN  IF ~r.hasMore
             THEN [run |-> [cursor |-> run.cursor, seen |-> kept.seen,
                            out |-> kept.out], more |-> FALSE]
             ELSE [run |-> [cursor |-> last, seen |-> kept.seen,
                            out |-> kept.out], more |-> Truthy(last)]

\* One iteration of the while loop of fetch_character_pages (kind "char",
\* services.py:75-112) or fetch_weapon_pages (kind "weapon", 241-283) on a
\* response r that does not raise: the locals after it, and whether the loop
\* goes round again.
FetchStep(kind, pool, run, r) ==
    IF r.kind = "non200" THEN [run |-> run, more |-> FALSE]
    ELSE IF r.code # 0 THEN [run |-> run, more |-> FALSE]
    ELSE IF r.list = <<>> THEN [run |-> run, more |-> FALSE]
    ELSE LET kept == IF kind = "char"
                     THEN CharKeep(r.list, pool, run.seen, run.out)
                     ELSE WeaponKeep(r.list, pool, run.seen, run.out)
             last == r.list[Len(r.list)].seqId
         IN  IF ~r.hasMore
             THEN [run |-> [cursor |-> run.cursor, seen |-> kept.seen,
                            out |-> kept.out], more |-> FALSE]
             ELSE [run |-> [cursor |-> last, seen |-> kept.seen,
                            out |-> kept.out], more |-> Truthy(last)]

\* services.py:129-148: the pools fetch_weapon_pools returns for a response
\* that does not raise
fetch_weapon_pools(r) ==
    IF r.kind = "non200" THEN <<>>
    ELSE IF r.code # 0 THEN <<>>
    ELSE SelectSeq(r.pools, LAMBDA pool_id : Truthy(pool_id))

\* services.py:153-157: the pools fetch_all_weapon_records iterates
WeaponPools(pools, selected_pool_id) ==
    LET known_ids == {pools[i] : i \in 1..Len(pools)}
    IN  IF Truthy(selected_pool_id) /\ selected_pool_id \notin known_ids
        THEN <<selected_pool_id>> \o pools
        ELSE pools

\* services.py:202-209: one pool's records merged into the weapon result
RECURSIVE WeaponMerge(_, _, _, _)
WeaponMerge(pool_items, pool_id, seen, out) ==
    IF pool_items = <<>> THEN [seen |-> seen, out |-> out]
    ELSE LET item == Head(pool_items)
             sequence_id == item.seqId
             item_pool_id == IF Truthy(item.poolId) THEN item.poolId ELSE pool_id
             dedupe_key == IF Truthy(sequence_id)
                           THEN <<item_pool_id, sequence_id>>
                           ELSE <<item_pool_id, ToString(Len(out))>>
         IN  IF dedupe_key \in seen
             THEN WeaponMerge(Tail(pool_items), pool_id, seen, out)
             ELSE WeaponMerge(Tail(pool_items), pool_id,
                      seen \cup {dedupe_key}, Append(out, item))

\* The text of the exception a raising response leaves in the job:
\* requests.get raising (services.py:85), response.json() on a body that is
\* not JSON (services.py:89), payload.get on a body that is not an object
\* (services.py:90).
ExcText(kind) ==
    CASE kind = "raise" -> "ConnectionError"
      [] kind = "badjson" -> "JSONDecodeError"
      [] kind = "notobject" -> "AttributeError"

Raises(r) == r.kind \in {"raise", "badjson", "notobject"}

----------------------------------------------------------------------------
(* Normalisation and the job's final pull list: core/views.py. *)

\* views.py:1325-1358
_normalize_pull_item(item) ==
    LET pool_id == IF Truthy(item.poolId) THEN item.poolId ELSE "UNKNOWN"
        source_pool_type == Get(item, "source_pool_type", "")
    IN  [pool_id |-> pool_id,
         seq_id |-> _to_int(item.seqId),
         source_pool_type |-> source_pool_type,
         item_type |-> IF source_pool_type = WEAPON_SOURCE_POOL_TYPE
                       THEN "weapon" ELSE "character"]

\* views.py:1454-1465
RECURSIVE DedupePulls(_, _, _)
DedupePulls(items, seen, pulls) ==
    IF items = <<>> THEN pulls
    ELSE LET normalized == _normalize_pull_item(Head(items))
             seq_id == normalized.seq_id
             pool_id == normalized.pool_id
             dedupe_key == IF Truthy(pool_id) /\ seq_id # 0
                           THEN <<pool_id, seq_id>> ELSE <<>>
         IN  IF dedupe_key # <<>> /\ dedupe_key \in seen
             THEN DedupePulls(Tail(items), seen, pulls)
             ELSE DedupePulls(Tail(items),
                      IF dedupe_key # <<>> THEN seen \cup {dedupe_key} ELSE seen,
                      Append(pulls, normalized))

\* views.py:1466-1472: a stable sort, newest first; the records carry no
\* gachaTs, so the key is (0, seq_id)
RECURSIVE InsertDesc(_, _)
InsertDesc(sorted, x) ==
    IF sorted = <<>> THEN <<x>>
    ELSE IF Head(sorted).seq_id >= x.seq_id
         THEN <<Head(sorted)>> \o InsertDesc(Tail(sorted), x)
         ELSE <<x>> \o sorted

RECURSIVE SortPulls(_)
SortPulls(pulls) ==
    IF pulls = <<>> THEN <<>>
    ELSE InsertDesc(SortPulls(SubSeq(pulls, 1, Len(pulls) - 1)), pulls[Len(pulls)])

\* views.py:1452-1472
BuildPulls(character_items, weapon_items) ==
    SortPulls(DedupePulls(character_items \o weapon_items, {}, <<>>))

----------------------------------------------------------------------------
(* Session store and progress tracker: core/views.py. *)

\* An id generator that does not advance.
_next_import_session_id_stuck(counter) == 1

\* views.py:1288-1293
_next_import_session_id(counter) == counter + 1

\* views.py:1296-1302
_set_import_session(sessions, session_id, updates) ==
    Put(sessions, session_id, Update(Get(sessions, session_id, EmptyDict), updates))

\* A clamp with no upper limit.
ClampNoUpper(progress) == Max2(0, progress)

\* views.py:1268
Clamp(progress) == Max2(0, Min2(100, progress))

\* views.py:1261-1273: updates holds the arguments that are not None
_set_progress(store, session_id, updates) ==
    LET state == Get(store, session_id, EmptyDict)
        given == [k \in DOMAIN updates |->
                     IF k = "progress" THEN Clamp(updates[k]) ELSE updates[k]]
    IN  Put(store, session_id, Update(state, given))

\* views.py:1276-1285: None is the empty set
_get_progress(store, session_id) ==
    LET state == Get(store, session_id, EmptyDict)
    IN  [status |-> Opt(state, "status"),
         progress |-> Opt(state, "progress"),
         message |-> Opt(state, "message"),
         error |-> Get(state, "error", "")]

\* views.py:1408-1417
on_character_pool_progress(index, total, stage) ==
    LET safe_total == Max2(total, 1)
    IN  IF stage = "start"
        THEN [status |-> "running",
              progress |-> 5 + (((index - 1) * 55) \div safe_total),
              message |-> "import.loading.hint1"]
        ELSE [status |-> "running",
              progress |-> 5 + ((index * 55) \div safe_total),
              message |-> "import.loading.hint2"]

\* A weapon callback whose percent starts again from the bottom of the scale.
on_weapon_pool_progress_restarts(index, total, stage) ==
    LET safe_total == Max2(total, 1)
    IN  IF stage = "start"
        THEN [status |-> "running",
              progress |-> 5 + (((index - 1) * 85) \div safe_total),
              message |-> "import.loading.hint1"]
        ELSE [status |-> "running",
              progress |-> 5 + ((index * 85) \div safe_total),
              message |-> "import.loading.hint2"]

\* views.py:1419-1428
on_weapon_pool_progress(index, total, stage) ==
    LET safe_total == Max2(total, 1)
    IN  IF stage = "start"
        THEN [status |-> "running",
              progress |-> 65 + (((index - 1) * 25) \div safe_total),
              message |-> "import.loading.hint1"]
        ELSE [status |-> "running",
              progress |-> 65 + ((index * 25) \div safe_total),
              message |-> "import.loading.hint2"]

\* An import_status that reports the stored percent whatever the status.
StatusResponseStored(session_id, session, progress_state) ==
    LET stored == IF progress_state.progress = {}
                  THEN IF session.status \in {"done", "error"} THEN 100 ELSE 0
                  ELSE CHOOSE p \in progress_state.progress : TRUE
    IN  [code |-> 200,
         session_id |-> session_id,
         status |-> IF Truthy(session.status) THEN session.status ELSE "running",
         progress |-> stored,
         message |-> IF progress_state.message = {} THEN {"import.error.processing"}
                     ELSE progress_state.message,
         error |-> session.error,
         pull_count |-> Len(session.pulls)]

\* views.py:1587-1611: the JSON import_status answers from the session and
\* the progress state it read
StatusResponse(session_id, session, progress_state) ==
    LET stored == IF progress_state.progress = {}
                  THEN IF session.status \in {"done", "error"} THEN 100 ELSE 0
                  ELSE CHOOSE p \in progress_state.progress : TRUE
        progress == IF session.status = "done" THEN 100 ELSE stored
    IN  [code |-> 200,
         session_id |-> session_id,
         status |-> IF Truthy(session.status) THEN session.status ELSE "running",
         progress |-> progress,
         message |-> IF progress_state.message = {} THEN {"import.error.processing"}
                     ELSE progress_state.message,
         error |-> session.error,
         pull_count |-> Len(session.pulls)]

----------------------------------------------------------------------------
(* The upstream API: what one request may be answered with. *)

\* A page request: the transport raises, a status other than 200, a body
\* that is not JSON, a JSON body that is not an object, an envelope with a
\* non-zero code, or an envelope with a list (empty once the upstream has
\* served its data pages).
PageResponses(data, maxlen) ==
    {[kind |-> k] : k \in {"raise", "non200", "badjson", "notobject"}}
    \cup {[kind |-> "ok", code |-> 1, list |-> <<>>, hasMore |-> FALSE]}
    \cup {[kind |-> "ok", code |-> 0, list |-> l, hasMore |-> h] :
             l \in (IF data THEN PageLists(maxlen) ELSE {<<>>}), h \in BOOLEAN}

\* The pool-list request.
PoolResponses ==
    {[kind |-> k] : k \in {"raise", "non200", "badjson", "notobject"}}
    \cup {[kind |-> "ok", code |-> 1, pools |-> <<>>]}
    \cup {[kind |-> "ok", code |-> 0, pools |-> l] : l \in PoolLists}

\* What a page response is, for the record kept of it.
Classify(r) ==
    IF r.kind # "ok" THEN r.kind
    ELSE IF r.code # 0 THEN "badcode"
    ELSE IF r.list = <<>> THEN "empty"
    ELSE "data"

Benign == {"non200", "badcode", "empty"}

KeyOf(item) == <<item.poolId, item.seqId>>

----------------------------------------------------------------------------
(* Initial state: the module globals of views.py:49-52, no request yet. *)

JobIdle ==
    [pc |-> "idle", sel |-> "", idx |-> 0, run |-> NewRun, all_items |-> <<>>,
     pools |-> <<>>, wseen |-> {}, wout |-> <<>>, weapon_items |-> <<>>,
     pulls |-> <<>>, exc |-> ""]

HistNone ==
    [fetched |-> {}, twice |-> {}, reqs |-> 0, nomoreAt |-> 0,
     lastKind |-> "", benignData |-> FALSE, percentArg |-> {},
     calls |-> <<>>, poolList |-> "", weaponRuns |-> <<>>]

ReqNew == [pc |-> "new", sid |-> 0, sel |-> ""]

InitCommon ==
    /\ IMPORT_SESSION_COUNTER = 0
    /\ IMPORT_SESSIONS = EmptyDict
    /\ IMPORT_PROGRESS = EmptyDict
    /\ req = [r \in SessionIds |-> ReqNew]
    /\ job = [s \in SessionIds |-> JobIdle]
    /\ poll = [pc |-> "idle", sid |-> 0, session |-> EmptyDict]
    /\ resp = {}
    /\ issued = <<>>
    /\ served = 0
    /\ hist = [s \in SessionIds |-> HistNone]
    /\ app_json = [row |-> {}, cache |-> {}]
    /\ session_store = [c \in 1..MaxClients |-> FALSE]

\* No caller holds a session value, the clock has not been read, no pure
\* function is under call.
NoCall == [fn |-> "none"]
InitIdle ==
    /\ held = <<>>
    /\ clock = 0
    /\ call = NoCall

\* One import, its status polled while it runs; the upstream serves one
\* data page of one record.
Init ==
    /\ InitCommon
    /\ InitIdle
    /\ quota = [requests |-> 1, pages |-> 1, pagelen |-> 1]

\* One import against an upstream that serves MaxDataPages data pages.
InitFetch ==
    /\ InitCommon
    /\ InitIdle
    /\ quota = [requests |-> 1, pages |-> MaxDataPages, pagelen |-> MaxPageLen]

\* One import against an upstream that serves MaxDataPages data pages of one
\* record each.
InitRead ==
    /\ InitCommon
    /\ InitIdle
    /\ quota = [requests |-> 1, pages |-> MaxDataPages, pagelen |-> 1]

\* The progress tracker alone, called for MaxProgressIds session ids.
InitProgress ==
    /\ InitCommon
    /\ InitIdle
    /\ quota = [requests |-> MaxProgressIds, pages |-> 0, pagelen |-> 0]

\* The session store called by one caller at a time: up to MaxStored
\* sessions, the caller holding up to MaxHeld returned values.
InitStore ==
    /\ InitCommon
    /\ InitIdle
    /\ quota = [requests |-> MaxStored, pages |-> 0, pagelen |-> 0]

\* One call of _pity_state_with_resets: up to MaxRarities rarities, most
\* recent first, a reset set and a hard limit.
Rarities == {4, 5, 6}
RarityLists == UNION {[1..n -> Rarities] : n \in 0..MaxRarities}
HardLimits == {0, 2, 10, 80}
InitPity ==
    /\ InitCommon
    /\ held = <<>>
    /\ clock = 0
    /\ quota = [requests |-> 0, pages |-> 0, pagelen |-> 0]
    /\ call \in [fn : {"pity"}, rarities : RarityLists,
                 reset_values : SUBSET {5, 6}, hard_limit : HardLimits]

\* One call of _build_history_rows: the rarities of up to MaxRarities pulls,
\* most recent first.
RowRarities == {3, 4, 5, 6}
RowPullLists == UNION {[1..n -> RowRarities] : n \in 0..MaxRarities}
InitRows ==
    /\ InitCommon
    /\ held = <<>>
    /\ clock = 0
    /\ quota = [requests |-> 0, pages |-> 0, pagelen |-> 0]
    /\ call \in [fn : {"rows"}, pulls : RowPullLists]

\* The history codec: a store of at most one session, then exports and
\* imports of payloads.
InitHistory ==
    /\ InitCommon
    /\ InitIdle
    /\ quota = [requests |-> 1, pages |-> 0, pagelen |-> 0]

\* One call of _normalize_pull_item on an upstream record: the JSON values
\* its converted fields may hold.  A float is num/den, infinity or nan; a
\* str is a sequence of characters; Absent marks a key the record lacks.
Absent == [kind |-> "absent"]
JBool(v) == [kind |-> "bool", body |-> v]
JFloat(cls, num, den) ==
    [kind |-> "float", body |-> [cls |-> cls, num |-> num, den |-> den]]
NumberValues ==
    {[kind |-> "none"],
     [kind |-> "int", body |-> 0], [kind |-> "int", body |-> 5],
     JFloat("finite", 0, 1), JFloat("finite", 3, 2),
     JFloat("inf", 1, 0), JFloat("nan", 0, 0),
     [kind |-> "str", body |-> <<"7">>],
     [kind |-> "str", body |-> <<" ", "1", "2", " ">>],
     [kind |-> "str", body |-> <<"a", "b", "c">>],
     JBool(TRUE),
     [kind |-> "list", body |-> <<>>]}
FlagValues ==
    {[kind |-> "none"], JBool(TRUE), JBool(FALSE),
     [kind |-> "str", body |-> <<" ", "Y", "e", "s">>],
     [kind |-> "str", body |-> <<"n", "o">>],
     [kind |-> "int", body |-> 0], [kind |-> "int", body |-> 5]}
UpstreamRecords ==
    [rarity : NumberValues \cup {Absent},
     gacha_ts : {Absent, [kind |-> "none"], [kind |-> "int", body |-> 5]},
     gachaTs : NumberValues,
     seqId : NumberValues \cup {Absent},
     isFree : FlagValues \cup {Absent}]
InitNormalize ==
    /\ InitCommon
    /\ held = <<>>
    /\ clock = 0
    /\ quota = [requests |-> 0, pages |-> 0, pagelen |-> 0]
    /\ call \in [fn : {"normalize"}, item : UpstreamRecords]

\* One call of the version top-character stats: the Banner table holds up to
\* MaxBanners banners in the order they were created, the pulls are any of
\* the candidate pulls.  A pool id special_<major>_<minor>_<n> is held
\* parsed; a pool id of another form has special FALSE.
Pool(major, minor, n) ==
    [special |-> TRUE, major |-> major, minor |-> minor, n |-> n]
OtherPool == [special |-> FALSE, major |-> 0, minor |-> 0, n |-> 0]
BannerRows ==
    {[pool_id |-> Pool(1, 1, 1), top_character |-> "echo"],
     [pool_id |-> Pool(1, 2, 1), top_character |-> "alpha"],
     [pool_id |-> Pool(1, 2, 2), top_character |-> "bravo"],
     [pool_id |-> Pool(1, 2, 3), top_character |-> "charlie"],
     [pool_id |-> Pool(1, 2, 4), top_character |-> "delta"]}
BannerTables ==
    {t \in UNION {[1..k -> BannerRows] : k \in 0..MaxBanners} :
        \A i, j \in 1..Len(t) : i # j => t[i] # t[j]}
CandidatePulls ==
    <<[pool_id |-> Pool(1, 2, 1), char_name |-> "alpha"],
      [pool_id |-> Pool(1, 2, 2), char_name |-> "bravo"],
      [pool_id |-> Pool(1, 2, 3), char_name |-> "charlie"],
      [pool_id |-> Pool(1, 2, 4), char_name |-> "delta"],
      [pool_id |-> Pool(1, 2, 2), char_name |-> "alpha"],
      [pool_id |-> Pool(1, 1, 1), char_name |-> "alpha"],
      [pool_id |-> Pool(1, 2, 2), char_name |-> "alpha"],
      [pool_id |-> OtherPool, char_name |-> "bravo"],
      [pool_id |-> Pool(1, 2, 2), char_name |-> "alpha"]>>
RECURSIVE PickPulls(_, _)
PickPulls(i, chosen) ==
    IF i > Len(CandidatePulls) THEN <<>>
    ELSE (IF i \in chosen THEN <<CandidatePulls[i]>> ELSE <<>>)
         \o PickPulls(i + 1, chosen)
VersionPullLists ==
    {PickPulls(1, chosen) : chosen \in SUBSET (1..Len(CandidatePulls))}
InitVersion ==
    /\ InitCommon
    /\ held = <<>>
    /\ clock = 0
    /\ quota = [requests |-> 0, pages |-> 0, pagelen |-> 0]
    /\ call \in [fn : {"version_stats"}, banners : BannerTables,
                 pulls : VersionPullLists]

\* No MAINTENANCE_MODE row is stored yet, no client holds the bypass flag.
InitMaintenance ==
    /\ InitCommon
    /\ InitIdle
    /\ quota = [requests |-> 0, pages |-> 0, pagelen |-> 0]

\* MaxRequests create_session requests at once.
InitCreate ==
    /\ InitCommon
    /\ InitIdle
    /\ quota = [requests |-> MaxRequests, pages |-> 0, pagelen |-> 0]

----------------------------------------------------------------------------
(* create_session: views.py:1528-1584. *)

Requests == 1..quota.requests

\* views.py:1530-1561: not a POST, a body that is not JSON, or no token or
\* server id: answered 400, nothing stored
CreateBadRequest(r) ==
    /\ req[r].pc = "new"
    /\ req' = [req EXCEPT ![r].pc = "rejected"]
    /\ UNCHANGED <<IMPORT_SESSION_COUNTER, IMPORT_SESSIONS, IMPORT_PROGRESS,
                   job, poll, served, quota, hist, resp, issued, held, clock, call,
                   app_json, session_store>>

\* views.py:1563
CreateNextId(r, sel) ==
    /\ req[r].pc = "new"
    /\ IMPORT_SESSION_COUNTER < MaxRequests
    /\ IMPORT_SESSION_COUNTER' = _next_import_session_id(IMPORT_SESSION_COUNTER)
    /\ req' = [req EXCEPT ![r] = [pc |-> "allocated",
                                  sid |-> IMPORT_SESSION_COUNTER', sel |-> sel]]
    /\ issued' = Append(issued, IMPORT_SESSION_COUNTER')
    /\ UNCHANGED <<IMPORT_SESSIONS, IMPORT_PROGRESS, job, poll, served, quota,
                   hist, resp, held, clock, call,
                   app_json, session_store>>

\* views.py:1564-1577
CreateStore(r) ==
    /\ req[r].pc = "allocated"
    /\ IMPORT_SESSIONS' = _set_import_session(IMPORT_SESSIONS, req[r].sid,
           [id |-> req[r].sid, selected_pool_id |-> req[r].sel,
            status |-> "running", error |-> "", pulls |-> <<>>])
    /\ req' = [req EXCEPT ![r].pc = "stored"]
    /\ UNCHANGED <<IMPORT_SESSION_COUNTER, IMPORT_PROGRESS, job, poll, served,
                   quota, hist, resp, issued, held, clock, call,
                   app_json, session_store>>

\* views.py:1579-1584: the first progress, then the worker thread starts
CreateStart(r) ==
    /\ req[r].pc = "stored"
    /\ IMPORT_PROGRESS' = _set_progress(IMPORT_PROGRESS, req[r].sid,
           [status |-> "running", progress |-> 1,
            message |-> "import.loading.prepare"])
    /\ job' = [job EXCEPT ![req[r].sid] = [JobIdle EXCEPT !.pc = "begin"]]
    /\ req' = [req EXCEPT ![r].pc = "answered"]
    /\ UNCHANGED <<IMPORT_SESSION_COUNTER, IMPORT_SESSIONS, poll, served, quota,
                   hist, resp, issued, held, clock, call,
                   app_json, session_store>>

----------------------------------------------------------------------------
(* _run_import_session, the worker thread of one session: views.py:1390-1510, *)
(* with the aggregators of services.py:17-61 and 151-226 it calls.  One      *)
(* action per lock section or upstream request.                              *)

TotalCharPools == Len(CHARACTER_POOL_TYPES)

PagePcs == {"char_page", "wfb_page", "w_page", "wlast_page"}

\* Where the job goes when the pagination run it is in returns.
AfterRun(pc) ==
    CASE pc = "char_page" -> "char_done"
      [] pc = "wfb_page" -> "wfb_done"
      [] pc = "w_page" -> "w_done"
      [] pc = "wlast_page" -> "p92"

\* The pool argument of the run: services.py:50, 167, 200, 226.
RunPool(j) ==
    CASE j.pc = "char_page" -> CHARACTER_POOL_TYPES[j.idx]
      [] j.pc = "w_page" -> j.pools[j.idx]
      [] OTHER -> j.sel

\* on_pool_progress(index=, total=, pool_type=, stage=) was invoked by the
\* aggregator of `kind`.
Called(h, kind, index, total, stage) ==
    [h EXCEPT !.calls = Append(@, [kind |-> kind, stage |-> stage,
                                   index |-> index, total |-> total])]

\* fetch_weapon_pages(pool_id=) was entered by the weapon aggregator.
RunStarted(h, pool_id) == [h EXCEPT !.weaponRuns = Append(@, pool_id)]

\* The record of a run is dropped once its result is taken.
EndRun(h) == [h EXCEPT !.reqs = 0, !.nomoreAt = 0, !.lastKind = ""]

\* views.py:1392-1395
JobBegin(sid) ==
    /\ job[sid].pc = "begin"
    /\ sid \in DOMAIN IMPORT_SESSIONS
    /\ IMPORT_PROGRESS' = _set_progress(IMPORT_PROGRESS, sid,
           [status |-> "running", progress |-> 3,
            message |-> "import.loading.prepare"])
    /\ job' = [job EXCEPT ![sid].pc = "char_start", ![sid].idx = 1,
                          ![sid].sel = IMPORT_SESSIONS[sid].selected_pool_id]
    /\ UNCHANGED <<IMPORT_SESSION_COUNTER, IMPORT_SESSIONS, req, poll, served,
                   quota, hist, resp, issued, held, clock, call,
                   app_json, session_store>>

\* services.py:48-49 with views.py:1408-1417, then services.py:71-73
CharStart(sid) ==
    /\ job[sid].pc = "char_start"
    /\ IMPORT_PROGRESS' = _set_progress(IMPORT_PROGRESS, sid,
           on_character_pool_progress(job[sid].idx, TotalCharPools, "start"))
    /\ job' = [job EXCEPT ![sid].pc = "char_page", ![sid].run = NewRun]
    /\ hist' = [hist EXCEPT ![sid] =
           Called(@, "character", job[sid].idx, TotalCharPools, "start")]
    /\ UNCHANGED <<IMPORT_SESSION_COUNTER, IMPORT_SESSIONS, req, poll, served,
                   quota, resp, issued, held, clock, call,
                   app_json, session_store>>

\* One page request of the run in progress and the loop iteration on its
\* response: services.py:75-114 and 241-285.  A response that raises leaves
\* the loop for the handler of views.py:1497.
FetchPage(sid, r) ==
    LET j == job[sid]
        h == hist[sid]
        class == Classify(r)
        step == FetchStep(IF j.pc = "char_page" THEN "char" ELSE "weapon",
                          RunPool(j), j.run, r)
        page == IF class = "data" THEN {r.list[i] : i \in 1..Len(r.list)} ELSE {}
        before == {KeyOf(i) : i \in h.fetched}
    IN  /\ j.pc \in PagePcs
        /\ job' = IF Raises(r)
                  THEN [job EXCEPT ![sid].pc = "fail",
                                   ![sid].exc = ExcText(r.kind)]
                  ELSE [job EXCEPT
                          ![sid].run = step.run,
                          ![sid].pc = IF step.more THEN j.pc ELSE AfterRun(j.pc),
                          ![sid].weapon_items =
                              IF ~step.more /\ j.pc = "wlast_page"
                              THEN step.run.out ELSE @]
        /\ served' = IF class = "data" THEN served + 1 ELSE served
        /\ hist' = [hist EXCEPT ![sid] =
               [fetched |-> h.fetched \cup page,
                twice |-> h.twice \cup
                    {KeyOf(i) : i \in {x \in page : KeyOf(x) \in before}},
                reqs |-> h.reqs + 1,
                nomoreAt |-> IF class \in {"data", "empty"} /\ ~r.hasMore
                             THEN h.reqs + 1 ELSE h.nomoreAt,
                lastKind |-> class,
                benignData |-> h.benignData
                               \/ (class \in Benign /\ j.run.out # <<>>),
                percentArg |-> h.percentArg,
                calls |-> h.calls,
                poolList |-> h.poolList,
                weaponRuns |-> h.weaponRuns]]
        /\ UNCHANGED <<IMPORT_SESSION_COUNTER, IMPORT_SESSIONS, IMPORT_PROGRESS,
                       req, poll, quota, resp, issued, held, clock, call,
                   app_json, session_store>>

\* A done step of a character pool that already publishes the records fetched so far.
CharDonePublishes(sid) ==
    LET j == job[sid]
    IN  /\ j.pc = "char_done"
        /\ IMPORT_PROGRESS' = _set_progress(IMPORT_PROGRESS, sid,
               on_character_pool_progress(j.idx, TotalCharPools, "done"))
        /\ IMPORT_SESSIONS' = _set_import_session(IMPORT_SESSIONS, sid,
               [pulls |-> BuildPulls(j.all_items \o j.run.out, <<>>)])
        /\ job' = [job EXCEPT
               ![sid].all_items = j.all_items \o j.run.out,
               ![sid].run = NewRun,
               ![sid].idx = IF j.idx < TotalCharPools THEN j.idx + 1 ELSE 0,
               ![sid].pc = IF j.idx < TotalCharPools
                           THEN "char_start" ELSE "weapon_pools"]
        /\ hist' = [hist EXCEPT ![sid] =
               Called(EndRun(@), "character", j.idx, TotalCharPools, "done")]
        /\ UNCHANGED <<IMPORT_SESSION_COUNTER, req, poll,
                       served, quota, resp, issued, held, clock, call,
                       app_json, session_store>>

\* The upstream ignores the cursor: the page request is answered hasMore=true
\* with records that were all served and kept before in this run.  The loop
\* iteration is that of FetchPage; when it goes round again the worker is in
\* time.sleep (services.py:112, 283).  Requests are counted up to MaxRefetch.
RefetchPage(sid, r) ==
    LET j == job[sid]
        h == hist[sid]
        step == FetchStep(IF j.pc = "char_page" THEN "char" ELSE "weapon",
                          RunPool(j), j.run, r)
    IN  /\ j.pc \in PagePcs
        /\ call.fn \in {"none", "stale"}
        /\ r.hasMore
        /\ \A i \in 1..Len(r.list) : r.list[i] \in h.fetched
        /\ step.run.seen = j.run.seen
        /\ step.run.out = j.run.out
        /\ job' = [job EXCEPT
               ![sid].run = step.run,
               ![sid].pc = IF step.more THEN j.pc ELSE AfterRun(j.pc),
               ![sid].weapon_items = IF ~step.more /\ j.pc = "wlast_page"
                                     THEN step.run.out ELSE @]
        /\ hist' = [hist EXCEPT
               ![sid].twice = @ \cup {KeyOf(r.list[i]) : i \in 1..Len(r.list)},
               ![sid].reqs = IF @ < MaxRefetch THEN @ + 1 ELSE @,
               ![sid].lastKind = "data"]
        /\ call' = [fn |-> IF step.more THEN "sleep" ELSE "stale"]
        /\ UNCHANGED <<IMPORT_SESSION_COUNTER, IMPORT_SESSIONS, IMPORT_PROGRESS,
                       req, poll, served, quota, resp, issued, held, clock,
                       app_json, session_store>>

\* services.py:112, 283: the sleep between two page requests is over.
Sleep ==
    /\ call.fn = "sleep"
    /\ call' = [fn |-> "stale"]
    /\ UNCHANGED <<IMPORT_SESSION_COUNTER, IMPORT_SESSIONS, IMPORT_PROGRESS,
                   req, job, poll, served, quota, hist, resp, issued, held,
                   clock, app_json, session_store>>

\* services.py:51-60 with views.py:1408-1417
CharDone(sid) ==
    LET j == job[sid]
    IN  /\ j.pc = "char_done"
        /\ IMPORT_PROGRESS' = _set_progress(IMPORT_PROGRESS, sid,
               on_character_pool_progress(j.idx, TotalCharPools, "done"))
        /\ job' = [job EXCEPT
               ![sid].all_items = j.all_items \o j.run.out,
               ![sid].run = NewRun,
               ![sid].idx = IF j.idx < TotalCharPools THEN j.idx + 1 ELSE 0,
               ![sid].pc = IF j.idx < TotalCharPools
                           THEN "char_start" ELSE "weapon_pools"]
        /\ hist' = [hist EXCEPT ![sid] =
               Called(EndRun(@), "character", j.idx, TotalCharPools, "done")]
        /\ UNCHANGED <<IMPORT_SESSION_COUNTER, IMPORT_SESSIONS, req, poll,
                       served, quota, resp, issued, held, clock, call,
                   app_json, session_store>>

\* services.py:153-160: the pool-list request, then the choice between the
\* generic feed and the pool loop
WeaponPoolsRequest(sid, r) ==
    LET j == job[sid]
        pools == WeaponPools(fetch_weapon_pools(r), j.sel)
    IN  /\ j.pc = "weapon_pools"
        /\ job' = IF Raises(r)
                  THEN [job EXCEPT ![sid].pc = "fail",
                                   ![sid].exc = ExcText(r.kind)]
                  ELSE [job EXCEPT
                          ![sid].pools = pools,
                          ![sid].idx = IF pools = <<>> THEN 0 ELSE 1,
                          ![sid].pc = IF pools = <<>> THEN "wfb_start"
                                      ELSE "w_start"]
        /\ hist' = [hist EXCEPT
               ![sid].lastKind = IF Raises(r) THEN r.kind ELSE @,
               ![sid].poolList = IF Raises(r) THEN @
                                 ELSE IF fetch_weapon_pools(r) = <<>>
                                 THEN "none" ELSE "some"]
        /\ UNCHANGED <<IMPORT_SESSION_COUNTER, IMPORT_SESSIONS, IMPORT_PROGRESS,
                       req, poll, served, quota, resp, issued, held, clock, call,
                   app_json, session_store>>

\* services.py:161-162 with views.py:1419-1428
WeaponFeedStart(sid) ==
    /\ job[sid].pc = "wfb_start"
    /\ IMPORT_PROGRESS' = _set_progress(IMPORT_PROGRESS, sid,
           on_weapon_pool_progress(1, 1, "start"))
    /\ job' = [job EXCEPT ![sid].pc = "wfb_page", ![sid].run = NewRun]
    /\ hist' = [hist EXCEPT ![sid] =
           RunStarted(Called(@, "weapon", 1, 1, "start"), job[sid].sel)]
    /\ UNCHANGED <<IMPORT_SESSION_COUNTER, IMPORT_SESSIONS, req, poll, served,
                   quota, resp, issued, held, clock, call,
                   app_json, session_store>>

\* services.py:169-178
WeaponFeedDone(sid) ==
    LET j == job[sid]
    IN  /\ j.pc = "wfb_done"
        /\ IMPORT_PROGRESS' = _set_progress(IMPORT_PROGRESS, sid,
               on_weapon_pool_progress(1, 1, "done"))
        /\ job' = [job EXCEPT ![sid].weapon_items = j.run.out,
                              ![sid].run = NewRun, ![sid].pc = "p92"]
        /\ hist' = [hist EXCEPT ![sid] =
               Called(EndRun(@), "weapon", 1, 1, "done")]
        /\ UNCHANGED <<IMPORT_SESSION_COUNTER, IMPORT_SESSIONS, req, poll,
                       served, quota, resp, issued, held, clock, call,
                   app_json, session_store>>

\* A start callback that reports the pools still to fetch as the total.
WeaponPoolStartRemaining(sid) ==
    LET j == job[sid]
        remaining == Len(j.pools) - j.idx + 1
    IN  /\ j.pc = "w_start"
        /\ IMPORT_PROGRESS' = _set_progress(IMPORT_PROGRESS, sid,
               on_weapon_pool_progress(j.idx, remaining, "start"))
        /\ job' = [job EXCEPT ![sid].pc = "w_page", ![sid].run = NewRun]
        /\ hist' = [hist EXCEPT ![sid] =
               RunStarted(Called(@, "weapon", j.idx, remaining, "start"),
                          j.pools[j.idx])]
        /\ UNCHANGED <<IMPORT_SESSION_COUNTER, IMPORT_SESSIONS, req, poll,
                       served, quota, resp, issued, held, clock, call,
                       app_json, session_store>>

\* services.py:183-194
WeaponPoolStart(sid) ==
    LET j == job[sid]
    IN  /\ j.pc = "w_start"
        /\ IMPORT_PROGRESS' = _set_progress(IMPORT_PROGRESS, sid,
               on_weapon_pool_progress(j.idx, Len(j.pools), "start"))
        /\ job' = [job EXCEPT ![sid].pc = "w_page", ![sid].run = NewRun]
        /\ hist' = [hist EXCEPT ![sid] =
               RunStarted(Called(@, "weapon", j.idx, Len(j.pools), "start"),
                          j.pools[j.idx])]
        /\ UNCHANGED <<IMPORT_SESSION_COUNTER, IMPORT_SESSIONS, req, poll,
                       served, quota, resp, issued, held, clock, call,
                   app_json, session_store>>

\* services.py:202-226: the pool's records merged, the done callback, and
\* after the last pool the result or the last-resort generic run
WeaponPoolDone(sid) ==
    LET j == job[sid]
        merged == WeaponMerge(j.run.out, j.pools[j.idx], j.wseen, j.wout)
        last == j.idx = Len(j.pools)
    IN  /\ j.pc = "w_done"
        /\ IMPORT_PROGRESS' = _set_progress(IMPORT_PROGRESS, sid,
               on_weapon_pool_progress(j.idx, Len(j.pools), "done"))
        /\ job' = [job EXCEPT
               ![sid].wseen = IF last THEN {} ELSE merged.seen,
               ![sid].wout = IF last THEN <<>> ELSE merged.out,
               ![sid].run = NewRun,
               ![sid].idx = IF last THEN 0 ELSE j.idx + 1,
               ![sid].weapon_items = IF last THEN merged.out ELSE @,
               ![sid].pc = IF ~last THEN "w_start"
                           ELSE IF merged.out # <<>> THEN "p92"
                           ELSE "wlast_page"]
        /\ hist' = [hist EXCEPT ![sid] =
               LET h == Called(EndRun(@), "weapon", j.idx, Len(j.pools), "done")
               IN  IF last /\ merged.out = <<>> THEN RunStarted(h, j.sel)
                   ELSE h]
        /\ UNCHANGED <<IMPORT_SESSION_COUNTER, IMPORT_SESSIONS, req, poll,
                       served, quota, resp, issued, held, clock, call,
                   app_json, session_store>>

\* views.py:1452-1479
Progress92(sid) ==
    LET j == job[sid]
        pulls == BuildPulls(j.all_items, j.weapon_items)
    IN  /\ j.pc = "p92"
        /\ IMPORT_PROGRESS' = _set_progress(IMPORT_PROGRESS, sid,
               [status |-> "running", progress |-> 92,
                message |-> "import.loading.hint3"])
        /\ job' = [job EXCEPT ![sid].pulls = pulls, ![sid].run = NewRun,
                              ![sid].all_items = <<>>,
                              ![sid].weapon_items = <<>>,
                              ![sid].pc = IF Len(pulls) > 0 THEN "p99"
                                          ELSE "commit"]
        /\ hist' = [hist EXCEPT ![sid] = EndRun(@)]
        /\ UNCHANGED <<IMPORT_SESSION_COUNTER, IMPORT_SESSIONS, req, poll,
                       served, quota, resp, issued, held, clock, call,
                   app_json, session_store>>

\* views.py:1481-1488
Progress99(sid) ==
    /\ job[sid].pc = "p99"
    /\ IMPORT_PROGRESS' = _set_progress(IMPORT_PROGRESS, sid,
           [status |-> "running", progress |-> 99,
            message |-> "import.error.processing"])
    /\ job' = [job EXCEPT ![sid].pc = "commit"]
    /\ UNCHANGED <<IMPORT_SESSION_COUNTER, IMPORT_SESSIONS, req, poll, served,
                   quota, hist, resp, issued, held, clock, call,
                   app_json, session_store>>

\* views.py:1490-1495
CommitDone(sid) ==
    /\ job[sid].pc = "commit"
    /\ IMPORT_SESSIONS' = _set_import_session(IMPORT_SESSIONS, sid,
           [status |-> "done", error |-> "", pulls |-> job[sid].pulls])
    /\ job' = [job EXCEPT ![sid].pc = "p100"]
    /\ UNCHANGED <<IMPORT_SESSION_COUNTER, IMPORT_PROGRESS, req, poll, served,
                   quota, hist, resp, issued, held, clock, call,
                   app_json, session_store>>

\* views.py:1496
Progress100(sid) ==
    /\ job[sid].pc = "p100"
    /\ IMPORT_PROGRESS' = _set_progress(IMPORT_PROGRESS, sid,
           [status |-> "done", progress |-> 100,
            message |-> "view.settings.import_done"])
    /\ job' = [job EXCEPT ![sid] = [JobIdle EXCEPT !.pc = "finished"]]
    /\ UNCHANGED <<IMPORT_SESSION_COUNTER, IMPORT_SESSIONS, req, poll, served,
                   quota, hist, resp, issued, held, clock, call,
                   app_json, session_store>>

\* An exception handler that keeps the pulls fetched before the failure.
CommitErrorKeepsPulls(sid) ==
    /\ job[sid].pc = "fail"
    /\ IMPORT_SESSIONS' = _set_import_session(IMPORT_SESSIONS, sid,
           [status |-> "error", error |-> job[sid].exc,
            pulls |-> BuildPulls(job[sid].all_items \o job[sid].run.out, <<>>)])
    /\ job' = [job EXCEPT ![sid].pc = "failp"]
    /\ UNCHANGED <<IMPORT_SESSION_COUNTER, IMPORT_PROGRESS, req, poll, served,
                   quota, hist, resp, issued, held, clock, call,
                   app_json, session_store>>

\* views.py:1497-1503
CommitError(sid) ==
    /\ job[sid].pc = "fail"
    /\ IMPORT_SESSIONS' = _set_import_session(IMPORT_SESSIONS, sid,
           [status |-> "error", error |-> job[sid].exc, pulls |-> <<>>])
    /\ job' = [job EXCEPT ![sid].pc = "failp"]
    /\ UNCHANGED <<IMPORT_SESSION_COUNTER, IMPORT_PROGRESS, req, poll, served,
                   quota, hist, resp, issued, held, clock, call,
                   app_json, session_store>>

\* An error progress step that also rewrites the stored session's error with
\* the progress message.
ProgressErrorRewritesSession(sid) ==
    /\ job[sid].pc = "failp"
    /\ IMPORT_PROGRESS' = _set_progress(IMPORT_PROGRESS, sid,
           [status |-> "error", progress |-> 100,
            message |-> "view.settings.import_error",
            error |-> job[sid].exc])
    /\ IMPORT_SESSIONS' = _set_import_session(IMPORT_SESSIONS, sid,
           [error |-> "view.settings.import_error"])
    /\ job' = [job EXCEPT ![sid] = [JobIdle EXCEPT !.pc = "finished",
                                                   !.exc = job[sid].exc]]
    /\ UNCHANGED <<IMPORT_SESSION_COUNTER, req, poll, served,
                   quota, hist, resp, issued, held, clock, call,
                   app_json, session_store>>

\* views.py:1504-1510
ProgressError(sid) ==
    /\ job[sid].pc = "failp"
    /\ IMPORT_PROGRESS' = _set_progress(IMPORT_PROGRESS, sid,
           [status |-> "error", progress |-> 100,
            message |-> "view.settings.import_error",
            error |-> job[sid].exc])
    /\ job' = [job EXCEPT ![sid] = [JobIdle EXCEPT !.pc = "finished",
                                                   !.exc = job[sid].exc]]
    /\ UNCHANGED <<IMPORT_SESSION_COUNTER, IMPORT_SESSIONS, req, poll, served,
                   quota, hist, resp, issued, held, clock, call,
                   app_json, session_store>>

----------------------------------------------------------------------------
(* import_status: views.py:1587-1611. *)

\* views.py:1589-1591: the session is read; an id that is not stored is
\* answered 404 and nothing changes
StatusReadSession(sid) ==
    /\ poll.pc = "idle"
    /\ sid \in DOMAIN IMPORT_SESSIONS
    /\ poll' = [pc |-> "read", sid |-> sid, session |-> IMPORT_SESSIONS[sid]]
    /\ resp' = {}
    /\ UNCHANGED <<IMPORT_SESSION_COUNTER, IMPORT_SESSIONS, IMPORT_PROGRESS,
                   req, job, served, quota, hist, issued, held, clock, call,
                   app_json, session_store>>

\* views.py:1592-1611: the progress state is read and the answer sent
StatusRespond ==
    /\ poll.pc = "read"
    /\ resp' = {StatusResponse(poll.sid, poll.session,
                               _get_progress(IMPORT_PROGRESS, poll.sid))}
    /\ poll' = [pc |-> "idle", sid |-> 0, session |-> EmptyDict]
    /\ UNCHANGED <<IMPORT_SESSION_COUNTER, IMPORT_SESSIONS, IMPORT_PROGRESS,
                   req, job, served, quota, hist, issued, held, clock, call,
                   app_json, session_store>>

----------------------------------------------------------------------------
(* The progress tracker called directly: views.py:1261-1285. *)

PercentArgs == {-5, 0, 37, 100, 250}
ProgressIds == 1..quota.requests

\* The keyword arguments of one _set_progress call: any subset of status,
\* progress and message, the percent any of PercentArgs.
ProgressArgs ==
    {[k \in K |-> [status |-> "running", progress |-> p,
                   message |-> "import.loading.hint1"][k]] :
        K \in SUBSET {"status", "progress", "message"}, p \in PercentArgs}

\* views.py:1261-1273
SetProgressCall(sid, updates) ==
    /\ IMPORT_PROGRESS' = _set_progress(IMPORT_PROGRESS, sid, updates)
    /\ hist' = [hist EXCEPT ![sid].percentArg =
                   IF "progress" \in DOMAIN updates
                   THEN {updates["progress"]} ELSE @]
    /\ resp' = {}
    /\ UNCHANGED <<IMPORT_SESSION_COUNTER, IMPORT_SESSIONS, req, job, poll,
                   served, quota, issued, held, clock, call,
                   app_json, session_store>>

\* views.py:1276-1285
GetProgressCall(sid) ==
    /\ resp' = {_get_progress(IMPORT_PROGRESS, sid)}
    /\ UNCHANGED <<IMPORT_SESSION_COUNTER, IMPORT_SESSIONS, IMPORT_PROGRESS,
                   req, job, poll, served, quota, hist, issued, held, clock, call,
                   app_json, session_store>>

----------------------------------------------------------------------------
(* The session store called directly: views.py:1296-1322. *)

\* A value handed to a caller, with the objects it shares with the store:
\* obj is the id of the stored session whose dict object it is, pulls_obj
\* the id of the stored session whose pulls list object it holds, 0 for
\* none.

\* A copy of the dict that keeps the lists inside it: dict(session).
copy_shallow(session_id, session) ==
    [obj |-> 0, pulls_obj |-> session_id, value |-> session]

\* views.py:1302, 1309, 1315: copy.deepcopy(session), which shares no object
\* with the store
deepcopy(session_id, session) ==
    [obj |-> 0, pulls_obj |-> 0, value |-> session]

\* The canonical pulls a session is given (views.py:1346-1358, reduced to
\* four keys), and the pull a caller writes into a value it holds.
StorePulls ==
    <<[pool_id |-> "standard", char_name |-> "Bob", rarity |-> 5, seq_id |-> 2],
      [pool_id |-> "standard", char_name |-> "Alice", rarity |-> 6, seq_id |-> 1]>>
StorePullLists == {SubSeq(StorePulls, 1, n) : n \in 0..Len(StorePulls)}
MarkerPull ==
    [pool_id |-> "caller", char_name |-> "caller", rarity |-> 0, seq_id |-> 0]

\* The wall clock: instant t is second t \div 2, microsecond t % 2.
\* datetime.isoformat() (views.py:1567) leaves the fraction out when the
\* microsecond is 0; the text is a sequence of characters.
Digit(n) == ToString(n)
isoformat(t) ==
    IF t % 2 = 0 THEN <<Digit(t \div 2), "+">>
    ELSE <<Digit(t \div 2), ".", Digit(t % 2), "+">>

\* The code point of a character, for the comparison of str values.
Ord(c) ==
    CASE c = "+" -> 43
      [] c = "." -> 46
      [] OTHER -> 48 + (CHOOSE n \in 0..9 : Digit(n) = c)

\* a < b for two str values: views.py:1316, the comparison sorted() makes
RECURSIVE StrLt(_, _)
StrLt(a, b) ==
    IF b = <<>> THEN FALSE
    ELSE IF a = <<>> THEN TRUE
    ELSE IF Ord(Head(a)) # Ord(Head(b)) THEN Ord(Head(a)) < Ord(Head(b))
    ELSE StrLt(Tail(a), Tail(b))

\* views.py:1316: sorted(..., reverse=True) is stable, so of two sessions
\* with equal keys the one that comes first in the dict stays first
RECURSIVE InsertByCreatedDesc(_, _)
InsertByCreatedDesc(sorted, x) ==
    IF sorted = <<>> THEN <<x>>
    ELSE IF ~StrLt(Head(sorted).created_at, x.created_at)
         THEN <<Head(sorted)>> \o InsertByCreatedDesc(Tail(sorted), x)
         ELSE <<x>> \o sorted

\* views.py:1312-1316: the values of the dict in insertion order, which is
\* the order of the ids, sorted by created_at descending
RECURSIVE _all_import_sessions(_, _)
_all_import_sessions(sessions, n) ==
    IF n = 0 THEN <<>>
    ELSE InsertByCreatedDesc(_all_import_sessions(sessions, n - 1), sessions[n])

\* views.py:1319-1322: None is the empty set
_latest_import_session(sessions, n) ==
    LET all == _all_import_sessions(sessions, n)
    IN  IF all = <<>> THEN {} ELSE {all[1]}

\* What a caller does to a value it holds: value["status"] = ...,
\* value["pulls"].append(...), value["pulls"][0] = ...
ApplyMutation(session, m) ==
    CASE m = "status" -> [session EXCEPT !.status = "mutated"]
      [] m = "append" -> [session EXCEPT !.pulls = Append(@, MarkerPull)]
      [] m = "edit" -> [session EXCEPT !.pulls = [@ EXCEPT ![1] = MarkerPull]]

\* views.py:1563-1577: a session enters the store, created_at read from the
\* clock
StoreCreate(now, server_id) ==
    /\ IMPORT_SESSION_COUNTER < quota.requests
    /\ now >= clock
    /\ clock' = now
    /\ IMPORT_SESSION_COUNTER' = _next_import_session_id(IMPORT_SESSION_COUNTER)
    /\ IMPORT_SESSIONS' = _set_import_session(IMPORT_SESSIONS,
           IMPORT_SESSION_COUNTER',
           [id |-> IMPORT_SESSION_COUNTER', created_at |-> isoformat(now),
            server_id |-> server_id, lang |-> "en-us",
            status |-> "running", error |-> "", pulls |-> <<>>])
    /\ issued' = Append(issued, IMPORT_SESSION_COUNTER')
    /\ resp' = {}
    /\ UNCHANGED <<IMPORT_PROGRESS, req, job, poll, served, quota, hist,
                   held, call,
                   app_json, session_store>>

\* views.py:1296-1302: the update, its returned copy kept by the caller or
\* not.  A value that shares the stored dict sees the update; one that
\* shares the replaced pulls list keeps the old list.
StoreSet(sid, pulls, keep) ==
    LET updates == [status |-> "done", error |-> "", pulls |-> pulls]
        stored == _set_import_session(IMPORT_SESSIONS, sid, updates)
        seen == [i \in 1..Len(held) |->
                    [obj |-> held[i].obj,
                     pulls_obj |-> IF held[i].pulls_obj = sid /\ held[i].obj # sid
                                   THEN 0 ELSE held[i].pulls_obj,
                     value |-> IF held[i].obj = sid
                               THEN stored[sid] ELSE held[i].value]]
    IN  /\ sid \in DOMAIN IMPORT_SESSIONS
        /\ IMPORT_SESSIONS[sid].status = "running"
        /\ keep => Len(held) < MaxHeld
        /\ IMPORT_SESSIONS' = stored
        /\ held' = IF keep THEN Append(seen, deepcopy(sid, stored[sid]))
                   ELSE seen
        /\ resp' = {}
        /\ UNCHANGED <<IMPORT_SESSION_COUNTER, IMPORT_PROGRESS, req, job, poll,
                       served, quota, hist, issued, clock, call,
                   app_json, session_store>>

\* views.py:1305-1309
StoreGet(sid) ==
    /\ sid \in DOMAIN IMPORT_SESSIONS
    /\ Len(held) < MaxHeld
    /\ held' = Append(held, deepcopy(sid, IMPORT_SESSIONS[sid]))
    /\ resp' = {}
    /\ UNCHANGED <<IMPORT_SESSION_COUNTER, IMPORT_SESSIONS, IMPORT_PROGRESS,
                   req, job, poll, served, quota, hist, issued, clock, call,
                   app_json, session_store>>

\* views.py:1312-1316: the list is read, the caller keeping its k-th value
StoreAll(k) ==
    LET all == _all_import_sessions(IMPORT_SESSIONS, IMPORT_SESSION_COUNTER)
    IN  /\ k \in 1..Len(all)
        /\ Len(held) < MaxHeld
        /\ held' = Append(held, deepcopy(all[k].id, all[k]))
        /\ resp' = {[kind |-> "list", value |-> all]}
        /\ UNCHANGED <<IMPORT_SESSION_COUNTER, IMPORT_SESSIONS, IMPORT_PROGRESS,
                       req, job, poll, served, quota, hist, issued, clock, call,
                   app_json, session_store>>

\* views.py:1319-1322
StoreLatest ==
    /\ resp' = {[kind |-> "latest",
                 value |-> _latest_import_session(IMPORT_SESSIONS,
                                                  IMPORT_SESSION_COUNTER)]}
    /\ UNCHANGED <<IMPORT_SESSION_COUNTER, IMPORT_SESSIONS, IMPORT_PROGRESS,
                   req, job, poll, served, quota, hist, issued, held, clock,
                   call,
                   app_json, session_store>>

\* A caller changes a value it holds; the stored objects the value shares
\* change with it.
Mutate(i, m) ==
    LET h == held[i]
        shared == IF m = "status" THEN h.obj ELSE h.pulls_obj
    IN  /\ i \in 1..Len(held)
        /\ m = "status" => h.value.status # "mutated"
        /\ m = "append" => \A k \in 1..Len(h.value.pulls) :
                               h.value.pulls[k] # MarkerPull
        /\ m = "edit" => h.value.pulls # <<>> /\ h.value.pulls[1] # MarkerPull
        /\ held' = [held EXCEPT ![i].value = ApplyMutation(h.value, m)]
        /\ IMPORT_SESSIONS' =
               IF shared = 0 THEN IMPORT_SESSIONS
               ELSE [IMPORT_SESSIONS EXCEPT ![shared] = ApplyMutation(@, m)]
        /\ resp' = {}
        /\ UNCHANGED <<IMPORT_SESSION_COUNTER, IMPORT_PROGRESS, req, job, poll,
                       served, quota, hist, issued, clock, call,
                   app_json, session_store>>

----------------------------------------------------------------------------
(* The pity counter: views.py:318-332. *)

\* A counter that counts the reset pull itself.
RECURSIVE _pity_counter_counts_reset(_, _)
_pity_counter_counts_reset(rarities, reset_values) ==
    IF rarities = <<>> THEN 0
    ELSE IF Head(rarities) \in reset_values THEN 1
    ELSE 1 + _pity_counter_counts_reset(Tail(rarities), reset_values)

\* views.py:318-325
RECURSIVE _pity_counter_until_any(_, _)
_pity_counter_until_any(rarities, reset_values) ==
    IF rarities = <<>> THEN 0
    ELSE IF Head(rarities) \in reset_values THEN 0
    ELSE 1 + _pity_counter_until_any(Tail(rarities), reset_values)

\* views.py:328-332
_pity_state_with_resets(rarities, reset_values, hard_limit) ==
    LET current == _pity_counter_until_any(rarities, reset_values)
    IN  [current |-> current, to_guarantee |-> Max2(hard_limit - current, 0)]

PityCall ==
    /\ call.fn = "pity"
    /\ resp = {}
    /\ resp' = {_pity_state_with_resets(call.rarities, call.reset_values,
                                        call.hard_limit)}
    /\ UNCHANGED <<IMPORT_SESSION_COUNTER, IMPORT_SESSIONS, IMPORT_PROGRESS,
                   req, job, poll, served, quota, hist, issued, held, clock,
                   call,
                   app_json, session_store>>

\* One iteration of the loop of _build_history_rows with a six-star pull
\* that leaves the five-star counter running.
RowStepSeparateCounters(rarity, pity) ==
    LET pity6 == pity.pity6 + 1
        pity5 == pity.pity5 + 1
        pity4 == pity.pity4 + 1
    IN  IF rarity = 6
        THEN [guarantee |-> pity6, pity6 |-> 0, pity5 |-> pity5, pity4 |-> 0]
        ELSE IF rarity = 5
        THEN [guarantee |-> pity5, pity6 |-> pity6, pity5 |-> 0, pity4 |-> 0]
        ELSE IF rarity = 4
        THEN [guarantee |-> pity4, pity6 |-> pity6, pity5 |-> pity5,
              pity4 |-> 0]
        ELSE [guarantee |-> pity4, pity6 |-> pity6, pity5 |-> pity5,
              pity4 |-> pity4]

\* views.py:409-424: one iteration of the loop of _build_history_rows, the
\* row's guarantee and the three counters after it
RowStep(rarity, pity) ==
    LET pity6 == pity.pity6 + 1
        pity5 == pity.pity5 + 1
        pity4 == pity.pity4 + 1
    IN  IF rarity = 6
        THEN [guarantee |-> pity6, pity6 |-> 0, pity5 |-> 0, pity4 |-> 0]
        ELSE IF rarity = 5
        THEN [guarantee |-> pity5, pity6 |-> pity6, pity5 |-> 0, pity4 |-> 0]
        ELSE IF rarity = 4
        THEN [guarantee |-> pity4, pity6 |-> pity6, pity5 |-> pity5,
              pity4 |-> 0]
        ELSE [guarantee |-> pity4, pity6 |-> pity6, pity5 |-> pity5,
              pity4 |-> pity4]

\* reversed() of a list
RECURSIVE reversed(_)
reversed(list) ==
    IF list = <<>> THEN <<>> ELSE Append(reversed(Tail(list)), Head(list))

\* views.py:405-433: the loop over the pulls, oldest first
RECURSIVE HistoryRowsLoop(_, _, _)
HistoryRowsLoop(chronological_pulls, pity, rows) ==
    IF chronological_pulls = <<>> THEN rows
    ELSE LET rarity == Head(chronological_pulls)
             step == RowStep(rarity, pity)
         IN  HistoryRowsLoop(Tail(chronological_pulls),
                 [pity6 |-> step.pity6, pity5 |-> step.pity5,
                  pity4 |-> step.pity4],
                 Append(rows, [rarity |-> rarity,
                               guarantee |-> step.guarantee]))

\* views.py:402-435: pulls are the rarities of the pulls, most recent first;
\* a row is reduced to its rarity and guarantee
_build_history_rows(pulls) ==
    reversed(HistoryRowsLoop(reversed(pulls),
                             [pity6 |-> 0, pity5 |-> 0, pity4 |-> 0], <<>>))

RowsCall ==
    /\ call.fn = "rows"
    /\ resp = {}
    /\ resp' = {_build_history_rows(call.pulls)}
    /\ UNCHANGED <<IMPORT_SESSION_COUNTER, IMPORT_SESSIONS, IMPORT_PROGRESS,
                   req, job, poll, served, quota, hist, issued, held, clock,
                   call, app_json, session_store>>

----------------------------------------------------------------------------
(* The history codec: views.py:603-612, 878-967, 1184-1221. *)

\* A parsed JSON value: its Python type and, where it has one, its content.
\* JNone is also what dict.get gives for a key that is absent.
JNone == [kind |-> "none"]
JStr(v) == [kind |-> "str", body |-> v]
JInt(v) == [kind |-> "int", body |-> v]
JList(v) == [kind |-> "list", body |-> v]
JDict(v) == [kind |-> "dict", body |-> v]
JGet(d, k) == IF k \in DOMAIN d THEN d[k] ELSE JNone
JTruthy(x) ==
    CASE x.kind = "none" -> FALSE
      [] x.kind = "str" -> x.body # ""
      [] x.kind = "int" -> x.body # 0
      [] x.kind = "list" -> x.body # <<>>
      [] x.kind = "dict" -> DOMAIN x.body # {}

\* The payloads a client uploads.  An entry of a pulls list is a pull object
\* or a string; an entry of a sessions list is a session object (with or
\* without pulls, with or without items) or a string.
HistoryPull == StorePulls[1]
PullEntries == {JDict(HistoryPull), JStr("x")}
PullEntryLists == UNION {[1..n -> PullEntries] : n \in 0..MaxEntries}
\* A dict holds the keys the codec reads, JNone under a key that is absent.
Session(pulls, items) ==
    JDict([server_id |-> JStr("4"), lang |-> JStr("en-us"),
           status |-> JStr("done"), pulls |-> pulls, items |-> items])
SessionEntries ==
    {Session(JList(<<JStr("x"), JDict(HistoryPull)>>), JNone),
     Session(JNone, JNone),
     Session(JNone, JList(<<JDict(HistoryPull)>>)),
     Session(JStr("x"), JList(<<JDict(HistoryPull)>>)),
     Session(JList(<<>>), JList(<<JDict(HistoryPull)>>)),
     JStr("x")}
\* A sessions list: up to MaxEntries of these entries, or one session with
\* any pulls list
SessionEntryLists ==
    UNION {[1..n -> SessionEntries] : n \in 0..MaxEntries}
    \cup {<<Session(JList(l), JNone)>> : l \in PullEntryLists}
Payloads ==
    {JStr("x"), JList(<<>>)}
    \cup {JDict([schema_version |-> JInt(1), sessions |-> JList(l),
                 items |-> i, server_id |-> JNone, lang |-> JNone]) :
              l \in SessionEntryLists,
              i \in {JNone, JList(<<JDict(HistoryPull)>>)}}
    \cup {JDict([schema_version |-> JNone, sessions |-> s, items |-> i,
                 server_id |-> sv, lang |-> lg]) :
              s \in {JNone, JStr("x")},
              i \in {JNone, JStr("x")} \cup {JList(l) : l \in PullEntryLists},
              sv \in {JNone, JStr(""), JStr("4")},
              lg \in {JNone, JStr("en-us")}}

\* views.py:878-889
_serialize_session(session) ==
    [source_session_id |-> session.id, created_at |-> session.created_at,
     server_id |-> session.server_id, lang |-> session.lang,
     status |-> session.status, error |-> session.error,
     pulls |-> session.pulls]

RECURSIVE SumPulls(_)
SumPulls(sessions) ==
    IF sessions = <<>> THEN 0
    ELSE Len(Head(sessions).pulls) + SumPulls(Tail(sessions))

\* views.py:603-612
_history_export_payload(sessions, now) ==
    [schema_version |-> 1, exported_at |-> isoformat(now),
     session_count |-> Len(sessions), pull_count |-> SumPulls(sessions),
     sessions |-> [i \in 1..Len(sessions) |-> _serialize_session(sessions[i])]]

\* views.py:893-894, 955: the export written as JSON by JsonResponse and
\* parsed by json.loads
json_session(s) ==
    JDict([source_session_id |-> JInt(s.source_session_id),
           created_at |-> JStr(s.created_at), server_id |-> JStr(s.server_id),
           lang |-> JStr(s.lang), status |-> JStr(s.status),
           error |-> JStr(s.error),
           pulls |-> JList([k \in 1..Len(s.pulls) |-> JDict(s.pulls[k])])])
json_export(payload) ==
    JDict([schema_version |-> JInt(payload.schema_version),
           exported_at |-> JStr(payload.exported_at),
           session_count |-> JInt(payload.session_count),
           pull_count |-> JInt(payload.pull_count),
           sessions |-> JList([i \in 1..Len(payload.sessions) |->
                                  json_session(payload.sessions[i])])])

\* A builder that lets a top-level items list override the sessions list.
_build_session_payloads_items_first(payload) ==
    LET sessions == JGet(payload, "sessions")
        items == JGet(payload, "items")
        server_id == JGet(payload, "server_id")
        lang == JGet(payload, "lang")
    IN  IF items.kind = "list"
        THEN JList(<<JDict([server_id |-> IF JTruthy(server_id) THEN server_id
                                          ELSE JStr("3"),
                            lang |-> IF JTruthy(lang) THEN lang
                                     ELSE JStr("ru-ru"),
                            status |-> JStr("done"),
                            pulls |-> items])>>)
        ELSE IF sessions.kind = "list" THEN sessions
        ELSE JNone

\* views.py:901-917
_build_session_payloads(payload) ==
    LET sessions == JGet(payload, "sessions")
        items == JGet(payload, "items")
        server_id == JGet(payload, "server_id")
        lang == JGet(payload, "lang")
    IN  IF sessions.kind = "list" THEN sessions
        ELSE IF items.kind = "list"
        THEN JList(<<JDict([server_id |-> IF JTruthy(server_id) THEN server_id
                                          ELSE JStr("3"),
                            lang |-> IF JTruthy(lang) THEN lang
                                     ELSE JStr("ru-ru"),
                            status |-> JStr("done"),
                            pulls |-> items])>>)
        ELSE JNone

\* views.py:931-939: the loop over the session payloads
RECURSIVE CountDicts(_)
CountDicts(entries) ==
    IF entries = <<>> THEN 0
    ELSE (IF Head(entries).kind = "dict" THEN 1 ELSE 0) + CountDicts(Tail(entries))

RECURSIVE CountImported(_, _)
CountImported(sessions_payload, counted) ==
    IF sessions_payload = <<>> THEN counted
    ELSE LET session_payload == Head(sessions_payload)
         IN  IF session_payload.kind # "dict"
             THEN CountImported(Tail(sessions_payload), counted)
             ELSE LET pulls == JGet(session_payload.body, "pulls")
                      pulls_payload == IF pulls.kind # "list"
                                       THEN JGet(session_payload.body, "items")
                                       ELSE pulls
                  IN  CountImported(Tail(sessions_payload),
                          [imported_sessions |-> counted.imported_sessions + 1,
                           imported_pulls |-> counted.imported_pulls +
                               (IF pulls_payload.kind = "list"
                                THEN CountDicts(pulls_payload.body) ELSE 0)])

\* An import that reads the payload as an object without checking it: a
\* payload that is no object makes payload.get raise AttributeError.
_import_history_payload_unchecked(payload) ==
    IF payload.kind # "dict"
    THEN [kind |-> "AttributeError", message |-> "no attribute 'get'"]
    ELSE LET sessions_payload == _build_session_payloads(payload.body)
         IN  IF sessions_payload.kind = "none"
             THEN [kind |-> "ValueError", message |-> "view.error.bad_format"]
             ELSE [kind |-> "ok",
                   counts |-> CountImported(sessions_payload.body,
                       [imported_sessions |-> 0, imported_pulls |-> 0])]

\* An import that counts every entry of a list, object or not.
_import_history_payload_counts_all(payload) ==
    IF payload.kind # "dict"
    THEN [kind |-> "ValueError", message |-> "view.error.bad_payload"]
    ELSE LET sessions_payload == _build_session_payloads(payload.body)
         IN  IF sessions_payload.kind = "none"
             THEN [kind |-> "ValueError", message |-> "view.error.bad_format"]
             ELSE [kind |-> "ok",
                   counts |-> [imported_sessions |-> Len(sessions_payload.body),
                               imported_pulls |->
                                   CountImported(sessions_payload.body,
                                       [imported_sessions |-> 0,
                                        imported_pulls |-> 0]).imported_pulls]]

\* views.py:920-941: what the call returns or raises.  It reads the payload
\* and writes nothing.
_import_history_payload(payload) ==
    IF payload.kind # "dict"
    THEN [kind |-> "ValueError", message |-> "view.error.bad_payload"]
    ELSE LET sessions_payload == _build_session_payloads(payload.body)
         IN  IF sessions_payload.kind = "none"
             THEN [kind |-> "ValueError", message |-> "view.error.bad_format"]
             ELSE [kind |-> "ok",
                   counts |-> CountImported(sessions_payload.body,
                       [imported_sessions |-> 0, imported_pulls |-> 0])]

\* views.py:953-967: the settings page rendered with the outcome
import_history(payload) ==
    LET outcome == _import_history_payload(payload)
    IN  CASE outcome.kind = "ok" ->
               [kind |-> "import", code |-> 200,
                level |-> "success", message |-> "view.settings.import_done",
                sessions |-> outcome.counts.imported_sessions,
                pulls |-> outcome.counts.imported_pulls]
          [] outcome.kind = "ValueError" ->
               [kind |-> "import", code |-> 200, level |-> "error",
                message |-> "view.settings.import_failed",
                details |-> outcome.message]
          [] OTHER ->
               [kind |-> "import", code |-> 200, level |-> "error",
                message |-> "view.settings.import_error",
                details |-> outcome.message]

\* views.py:1206-1221: the payload fetched from the cloud, then checked
cloud_auto_import_api(payload) ==
    LET outcome == _import_history_payload(payload)
    IN  CASE outcome.kind = "ok" ->
               [kind |-> "import", code |-> 200,
                level |-> "success", message |-> "ok",
                sessions |-> outcome.counts.imported_sessions,
                pulls |-> outcome.counts.imported_pulls]
          [] outcome.kind = "ValueError" ->
               [kind |-> "import", code |-> 400, level |-> "error",
                message |-> "error",
                details |-> outcome.message]
          [] OTHER ->
               [kind |-> "import", code |-> 500, level |-> "error",
                message |-> "error",
                details |-> outcome.message]

Boundary(fn, payload) ==
    IF fn = "import_history" THEN import_history(payload)
    ELSE cloud_auto_import_api(payload)

\* views.py:892-898: export_history
ExportHistory ==
    /\ resp' = {[kind |-> "export",
                 payload |-> json_export(_history_export_payload(
                     _all_import_sessions(IMPORT_SESSIONS,
                                          IMPORT_SESSION_COUNTER), clock))]}
    /\ call' = NoCall
    /\ UNCHANGED <<IMPORT_SESSION_COUNTER, IMPORT_SESSIONS, IMPORT_PROGRESS,
                   req, job, poll, served, quota, hist, issued, held, clock,
                   app_json, session_store>>

\* views.py:944-967 and 1184-1221: one import of an uploaded payload through
\* either boundary.  call keeps the payload, the store as it was before the
\* first import of it and how often it has been imported.  A client
\* uploads one payload, once or again.
ImportHistory(fn, payload) ==
    LET again == /\ call.fn = fn
                 /\ ~call.exported
                 /\ call.payload = payload
        times == IF again THEN call.times + 1 ELSE 1
    IN  /\ call = NoCall \/ again
        /\ times <= MaxImports
        /\ call' = [fn |-> fn, payload |-> payload, exported |-> FALSE,
                    before |-> IF again THEN call.before ELSE IMPORT_SESSIONS,
                    times |-> times]
        /\ resp' = {Boundary(fn, payload)}
        /\ UNCHANGED <<IMPORT_SESSION_COUNTER, IMPORT_SESSIONS, IMPORT_PROGRESS,
                       req, job, poll, served, quota, hist, issued, held,
                       clock,
                   app_json, session_store>>

\* The file export_history gave, uploaded again.
ImportExported(fn) ==
    /\ \E e \in resp :
           /\ e.kind = "export"
           /\ call' = [fn |-> fn, payload |-> e.payload, exported |-> TRUE,
                       before |-> IMPORT_SESSIONS, times |-> 1]
           /\ resp' = {Boundary(fn, e.payload)}
    /\ UNCHANGED <<IMPORT_SESSION_COUNTER, IMPORT_SESSIONS, IMPORT_PROGRESS,
                   req, job, poll, served, quota, hist, issued, held, clock,
                   app_json, session_store>>

----------------------------------------------------------------------------
(* Normalisation of one record over every JSON value: views.py:586-600, *)
(* 1325-1358. *)

\* item.get(key) and key in item
ItemGet(item, key) ==
    IF item[key] = Absent THEN [kind |-> "none"] ELSE item[key]
ItemHas(item, key) == item[key] # Absent

IsDigit(c) == \E n \in 0..9 : Digit(n) = c
DigitValue(c) == CHOOSE n \in 0..9 : Digit(n) = c

\* str.strip() for the blank
RECURSIVE LStrip(_)
LStrip(chars) ==
    IF chars # <<>> /\ Head(chars) = " " THEN LStrip(Tail(chars)) ELSE chars
RECURSIVE RStrip(_)
RStrip(chars) ==
    IF chars # <<>> /\ chars[Len(chars)] = " "
    THEN RStrip(SubSeq(chars, 1, Len(chars) - 1)) ELSE chars
Strip(chars) == RStrip(LStrip(chars))

\* str.lower() over the letters of the model
Lower(c) ==
    CASE c = "Y" -> "y"
      [] c = "E" -> "e"
      [] c = "S" -> "s"
      [] OTHER -> c
LowerAll(chars) == [i \in 1..Len(chars) |-> Lower(chars[i])]

RECURSIVE Decimal(_, _)
Decimal(chars, acc) ==
    IF chars = <<>> THEN acc
    ELSE Decimal(Tail(chars), 10 * acc + DigitValue(Head(chars)))

\* int(value): the number, or the exception it raises
int(value) ==
    CASE value.kind = "int" -> [kind |-> "ok", body |-> value.body]
      [] value.kind = "bool" ->
           [kind |-> "ok", body |-> IF value.body THEN 1 ELSE 0]
      [] value.kind = "float" ->
           (CASE value.body.cls = "finite" ->
                   [kind |-> "ok", body |-> value.body.num \div value.body.den]
              [] value.body.cls = "inf" -> [kind |-> "OverflowError", body |-> 0]
              [] OTHER -> [kind |-> "ValueError", body |-> 0])
      [] value.kind = "str" ->
           (LET chars == Strip(value.body)
            IN  IF chars # <<>> /\ \A i \in 1..Len(chars) : IsDigit(chars[i])
                THEN [kind |-> "ok", body |-> Decimal(chars, 0)]
                ELSE [kind |-> "ValueError", body |-> 0])
      [] OTHER -> [kind |-> "TypeError", body |-> 0]

\* views.py:586-591 over every JSON value: an exception that is neither
\* TypeError nor ValueError leaves the function
_to_int_value(value, default) ==
    LET n == int(value)
    IN  IF n.kind \in {"TypeError", "ValueError"}
        THEN [kind |-> "ok", body |-> default]
        ELSE n

\* views.py:594-600
_to_bool(value) ==
    CASE value.kind = "bool" -> value.body
      [] value.kind = "str" ->
           LowerAll(Strip(value.body)) \in {<<"1">>, <<"t", "r", "u", "e">>,
                                            <<"y", "e", "s">>, <<"y">>}
      [] value.kind = "none" -> FALSE
      [] value.kind = "int" -> value.body # 0
      [] value.kind = "float" -> value.body.cls # "finite" \/ value.body.num # 0
      [] value.kind = "list" -> value.body # <<>>

\* views.py:1346-1358, the converted fields: the dict returned, or the
\* exception raised.  None is the empty set.
_normalize_pull_item_value(item) ==
    LET rarity == _to_int_value(ItemGet(item, "rarity"), 0)
        gacha_ts == _to_int_value(IF ItemHas(item, "gacha_ts")
                                  THEN ItemGet(item, "gacha_ts")
                                  ELSE ItemGet(item, "gachaTs"), 0)
        seq_id == _to_int_value(ItemGet(item, "seqId"), 0)
        raised == {n.kind : n \in {rarity, gacha_ts, seq_id}} \ {"ok"}
    IN  IF raised # {}
        THEN [kind |-> CHOOSE e \in raised : TRUE]
        ELSE [kind |-> "ok",
              body |-> [rarity |-> rarity.body,
                        is_free |-> _to_bool(ItemGet(item, "isFree")),
                        gacha_ts |-> IF gacha_ts.body # 0
                                     THEN {gacha_ts.body} ELSE {},
                        seq_id |-> seq_id.body]]

NormalizeCall ==
    /\ call.fn = "normalize"
    /\ resp = {}
    /\ resp' = {_normalize_pull_item_value(call.item)}
    /\ UNCHANGED <<IMPORT_SESSION_COUNTER, IMPORT_SESSIONS, IMPORT_PROGRESS,
                   req, job, poll, served, quota, hist, issued, held, clock,
                   call,
                   app_json, session_store>>

----------------------------------------------------------------------------
(* Version top-character stats, called by tests.py:486-660; the function   *)
(* is not part of the sources at hand and is modelled from its             *)
(* specification.                                                          *)

VersionOf(pool_id) == <<pool_id.major, pool_id.minor>>
VersionLt(a, b) == a[1] < b[1] \/ (a[1] = b[1] /\ a[2] < b[2])

\* The (major, minor) of the latest version that has a banner
LatestVersion(banners) ==
    LET versions == {VersionOf(banners[i].pool_id) : i \in 1..Len(banners)}
    IN  CHOOSE v \in versions : \A w \in versions : ~VersionLt(v, w)

\* The banners of a version, in the order of the table
RECURSIVE VersionBanners(_, _)
VersionBanners(banners, version) ==
    IF banners = <<>> THEN <<>>
    ELSE (IF VersionOf(Head(banners).pool_id) = version
          THEN <<Head(banners)>> ELSE <<>>)
         \o VersionBanners(Tail(banners), version)

\* Ordered by the pool sequence number n
RECURSIVE InsertByNumber(_, _)
InsertByNumber(sorted, x) ==
    IF sorted = <<>> THEN <<x>>
    ELSE IF Head(sorted).pool_id.n <= x.pool_id.n
         THEN <<Head(sorted)>> \o InsertByNumber(Tail(sorted), x)
         ELSE <<x>> \o sorted
RECURSIVE SortByNumber(_)
SortByNumber(banners) ==
    IF banners = <<>> THEN <<>>
    ELSE InsertByNumber(SortByNumber(SubSeq(banners, 1, Len(banners) - 1)),
                        banners[Len(banners)])

FirstThree(banners) == SubSeq(banners, 1, Min2(3, Len(banners)))

RECURSIVE CountPulls(_, _, _)
CountPulls(pulls, character, pools) ==
    IF pulls = <<>> THEN 0
    ELSE (IF Head(pulls).char_name = character /\ Head(pulls).pool_id \in pools
          THEN 1 ELSE 0)
         + CountPulls(Tail(pulls), character, pools)

\* Rows ordered by descending drop_count, equal counts in banner order
RECURSIVE InsertByDrops(_, _)
InsertByDrops(sorted, x) ==
    IF sorted = <<>> THEN <<x>>
    ELSE IF Head(sorted).drop_count >= x.drop_count
         THEN <<Head(sorted)>> \o InsertByDrops(Tail(sorted), x)
         ELSE <<x>> \o sorted
RECURSIVE SortByDrops(_)
SortByDrops(rows) ==
    IF rows = <<>> THEN <<>>
    ELSE InsertByDrops(SortByDrops(SubSeq(rows, 1, Len(rows) - 1)),
                       rows[Len(rows)])

RECURSIVE SumDrops(_)
SumDrops(rows) ==
    IF rows = <<>> THEN 0 ELSE Head(rows).drop_count + SumDrops(Tail(rows))

\* Stats that credit a top character only with the pulls of its own banner.
VersionStatsOwnBanner(tracked, version, pulls, tracked_characters_count) ==
    LET version_pools == {pool_id \in {pulls[i].pool_id : i \in 1..Len(pulls)} :
                              pool_id.special /\ VersionOf(pool_id) = version}
        rows == [i \in 1..Len(tracked) |->
                    [character_code |-> tracked[i].top_character,
                     drop_count |-> CountPulls(pulls, tracked[i].top_character,
                                               version_pools
                                                   \cap {tracked[i].pool_id}),
                     current_banner_drop_count |->
                         CountPulls(pulls, tracked[i].top_character,
                                    {tracked[i].pool_id})]]
        total == SumDrops(rows)
    IN  [version_label |-> version, total_top_drops |-> total,
         tracked_characters_count |-> tracked_characters_count,
         stats |-> SortByDrops([i \in 1..Len(rows) |->
                      [character_code |-> rows[i].character_code,
                       drop_count |-> rows[i].drop_count,
                       current_banner_drop_count |->
                           rows[i].current_banner_drop_count,
                       share_percent |->
                           IF total = 0 THEN 0
                           ELSE (rows[i].drop_count * 100) \div total]])]

\* The stats of the tracked banners: drops of each top character over the
\* pulls of the whole version, and over its own banner.  None is the empty
\* set.
VersionStats(tracked, version, pulls, tracked_characters_count) ==
    LET version_pools == {pool_id \in {pulls[i].pool_id : i \in 1..Len(pulls)} :
                              pool_id.special /\ VersionOf(pool_id) = version}
        rows == [i \in 1..Len(tracked) |->
                    [character_code |-> tracked[i].top_character,
                     drop_count |-> CountPulls(pulls, tracked[i].top_character,
                                               version_pools),
                     current_banner_drop_count |->
                         CountPulls(pulls, tracked[i].top_character,
                                    {tracked[i].pool_id})]]
        total == SumDrops(rows)
    IN  [version_label |-> version, total_top_drops |-> total,
         tracked_characters_count |-> tracked_characters_count,
         stats |-> SortByDrops([i \in 1..Len(rows) |->
                      [character_code |-> rows[i].character_code,
                       drop_count |-> rows[i].drop_count,
                       current_banner_drop_count |->
                           rows[i].current_banner_drop_count,
                       share_percent |->
                           IF total = 0 THEN 0
                           ELSE (rows[i].drop_count * 100) \div total]])]

\* Stats that track the first three banners in the order they were created.
_compute_version_top_stats_by_creation(banners, pulls, tracked_characters_count) ==
    IF banners = <<>> THEN {}
    ELSE LET version == LatestVersion(banners)
         IN  {VersionStats(FirstThree(VersionBanners(banners, version)),
                           version, pulls, tracked_characters_count)}

_compute_version_top_stats_from_pulls(banners, pulls, tracked_characters_count) ==
    IF banners = <<>> THEN {}
    ELSE LET version == LatestVersion(banners)
         IN  {VersionStats(
                  FirstThree(SortByNumber(VersionBanners(banners, version))),
                  version, pulls, tracked_characters_count)}

VersionCall ==
    /\ call.fn = "version_stats"
    /\ resp = {}
    /\ resp' = {[kind |-> "version_stats",
                 value |-> _compute_version_top_stats_from_pulls(
                               call.banners, call.pulls, 10)]}
    /\ UNCHANGED <<IMPORT_SESSION_COUNTER, IMPORT_SESSIONS, IMPORT_PROGRESS,
                   req, job, poll, served, quota, hist, issued, held, clock,
                   call,
                   app_json, session_store>>

-----------------------------------------------------------------------------
\* Maintenance mode (core/middleware.py MaintenanceModeMiddleware,
\* core/maintenance.py, core/config_store.py).  A path is the sequence of its
\* "/" separators and segments, so that a prefix test is a prefix test.  The
\* stored payload carries "enabled", "active" and "launch_at"; launch_at is a
\* count of clock instants and 0 stands for no launch time.  A page request
\* carries no query string, a bypass request carries "enable" (the empty
\* string when it is absent: `or` treats both alike).

StartsWith(s, prefix) ==
    Len(prefix) <= Len(s) /\ SubSeq(s, 1, Len(prefix)) = prefix

EXCLUDED_PREFIXES == { <<"/", "static", "/">> }

EXCLUDED_EXACT == { <<"/", "favicon.ico">> }

RequestPaths ==
    { <<"/">>,
      <<"/", "admin", "/">>,
      <<"/", "static">>,
      <<"/", "static", "/", "app.css">>,
      <<"/", "favicon.ico">>,
      <<"/", "maintenance", "/">>,
      <<"/", "maintenance", "/", "bypass">> }

EnableValues == { <<>>, <<"1">>, <<"0">>, <<" ", "Y", "E", "S">> }

MaintenanceRows ==
    [enabled : BOOLEAN, active : BOOLEAN, launch_at : 0..MaxClock]

_is_excluded_path(path) ==
    \/ path \in EXCLUDED_EXACT
    \/ \E prefix \in EXCLUDED_PREFIXES : StartsWith(path, prefix)

_is_maintenance_path(path) ==
    \/ path \in { <<"/", "maintenance">>, <<"/", "maintenance", "/">> }
    \/ StartsWith(path, <<"/", "maintenance", "/">>)

_is_bypass_path(path) ==
    \/ path \in { <<"/", "maintenance", "/", "bypass">>,
                  <<"/", "maintenance", "/", "bypass", "/">> }
    \/ StartsWith(path, <<"/", "maintenance", "/", "bypass", "/">>)

\* MaintenanceModeMiddleware._to_bool on a string.
middleware_to_bool(value) ==
    LowerAll(Strip(value)) \in
        { <<"1">>, <<"t", "r", "u", "e">>, <<"y", "e", "s">>, <<"o", "n">> }

\* get_app_json(MAINTENANCE_CONFIG_KEY, default={}, use_cache): the value
\* read and the store after the read.  The cached value is returned only on
\* use_cache; a read of the row refills the cache.
get_app_json(store, use_cache) ==
    IF use_cache /\ store.cache # {}
    THEN [value |-> store.cache, store |-> store]
    ELSE [value |-> store.row, store |-> [store EXCEPT !.cache = store.row]]

\* _parse_timestamp_ms on an integer: nothing for raw <= 0.
_parse_timestamp_ms(raw) == IF raw <= 0 THEN {} ELSE {raw}

\* normalize_maintenance_payload: a missing row reads as the default {}.
normalize_maintenance_payload(raw_payload) ==
    IF raw_payload = {}
    THEN [enabled |-> FALSE, launch_at_ms |-> {}]
    ELSE LET payload == CHOOSE p \in raw_payload : TRUE
             enabled == payload.enabled
         IN  [enabled |-> IF ~enabled THEN payload.active ELSE enabled,
              launch_at_ms |-> _parse_timestamp_ms(payload.launch_at)]

is_maintenance_expired(payload, now_ms) ==
    /\ payload.enabled
    /\ payload.launch_at_ms # {}
    /\ \E launch_at_ms \in payload.launch_at_ms :
           launch_at_ms > 0 /\ launch_at_ms <= now_ms

\* disable_maintenance_mode_in_db: nothing without a row; otherwise the row
\* is saved with enabled and active false and the cache is reset.
disable_maintenance_mode_in_db(store) ==
    IF store.row = {}
    THEN store
    ELSE [row |-> { [payload EXCEPT !.enabled = FALSE, !.active = FALSE]
                      : payload \in store.row },
          cache |-> {}]

has_admin_bypass_session(session) == session

\* The read of the stored configuration at the head of __call__.
ReadMaintenanceCached(store) == get_app_json(store, TRUE)

ReadMaintenance(store) == get_app_json(store, FALSE)

\* _handle_bypass_request: the session flag after the request, and the answer
\* (the redirect to `next`, by default "/").
_handle_bypass_request(session, enable_param, maintenance) ==
    LET enable_raw == LowerAll(Strip(IF enable_param # <<>> THEN enable_param
                                     ELSE <<"1">>))
        enable == middleware_to_bool(enable_raw)
    IN  [session |-> IF enable THEN TRUE ELSE FALSE,
         response |-> [kind |-> "redirect", location |-> <<"/">>,
                       next |-> <<>>]]

\* MaintenanceModeMiddleware.__call__ with admin exempted from the redirect.
MiddlewareCallAdminOpen(store, session, path, enable_param, now) ==
    IF _is_excluded_path(path)
    THEN [store |-> store, session |-> session, response |-> [kind |-> "view"]]
    ELSE LET read == ReadMaintenance(store)
             loaded == normalize_maintenance_payload(read.value)
             expired == is_maintenance_expired(loaded, now)
             store2 == IF expired
                       THEN disable_maintenance_mode_in_db(read.store)
                       ELSE read.store
             maintenance == IF expired THEN [loaded EXCEPT !.enabled = FALSE]
                            ELSE loaded
         IN  IF _is_bypass_path(path)
             THEN LET r == _handle_bypass_request(session, enable_param,
                                                  maintenance)
                  IN  [store |-> store2, session |-> r.session,
                       response |-> r.response]
             ELSE [store |-> store2, session |-> session,
                   response |->
                     IF _is_maintenance_path(path)
                     THEN IF maintenance.enabled
                          THEN [kind |-> "maintenance_html"]
                          ELSE [kind |-> "view"]
                     ELSE IF ~maintenance.enabled
                               \/ StartsWith(path, <<"/", "admin", "/">>)
                          THEN [kind |-> "view"]
                     ELSE IF has_admin_bypass_session(session)
                          THEN [kind |-> "view"]
                     ELSE [kind |-> "redirect",
                           location |-> <<"/", "maintenance", "/">>,
                           next |-> path]]

\* MaintenanceModeMiddleware.__call__: the store, the client's session flag
\* and the answer after one request handled at instant `now`.
MiddlewareCall(store, session, path, enable_param, now) ==
    IF _is_excluded_path(path)
    THEN [store |-> store, session |-> session, response |-> [kind |-> "view"]]
    ELSE LET read == ReadMaintenance(store)
             loaded == normalize_maintenance_payload(read.value)
             expired == is_maintenance_expired(loaded, now)
             store2 == IF expired
                       THEN disable_maintenance_mode_in_db(read.store)
                       ELSE read.store
             maintenance == IF expired THEN [loaded EXCEPT !.enabled = FALSE]
                            ELSE loaded
         IN  IF _is_bypass_path(path)
             THEN LET r == _handle_bypass_request(session, enable_param,
                                                  maintenance)
                  IN  [store |-> store2, session |-> r.session,
                       response |-> r.response]
             ELSE [store |-> store2, session |-> session,
                   response |->
                     IF _is_maintenance_path(path)
                     THEN IF maintenance.enabled
                          THEN [kind |-> "maintenance_html"]
                          ELSE [kind |-> "view"]
                     ELSE IF ~maintenance.enabled
                          THEN [kind |-> "view"]
                     ELSE IF has_admin_bypass_session(session)
                          THEN [kind |-> "view"]
                     ELSE [kind |-> "redirect",
                           location |-> <<"/", "maintenance", "/">>,
                           next |-> path]]

\* One request of a client goes through the middleware.
MaintenanceRequest(client, path, enable_param, now) ==
    /\ call.fn \in {"none", "middleware", "admin"}
    /\ now >= clock
    /\ ~_is_bypass_path(path) => enable_param = <<>>
    /\ LET r == MiddlewareCall(app_json, session_store[client], path,
                               enable_param, now)
       IN  /\ app_json' = r.store
           /\ session_store' = [session_store EXCEPT ![client] = r.session]
           /\ call' = [fn |-> "middleware", client |-> client, path |-> path,
                       enable |-> enable_param, now |-> now,
                       response |-> r.response,
                       before |-> normalize_maintenance_payload(app_json.row),
                       bypass |-> session_store[client]]
    /\ clock' = now
    /\ UNCHANGED <<IMPORT_SESSION_COUNTER, IMPORT_SESSIONS, IMPORT_PROGRESS,
                   req, job, poll, resp, issued, served, quota, hist, held>>

\* An administrator saves the MAINTENANCE_MODE row; the cache is left alone.
AdminSaveConfig(payload) ==
    /\ call.fn \in {"none", "middleware", "admin"}
    /\ app_json.row # {payload}
    /\ app_json' = [app_json EXCEPT !.row = {payload}]
    /\ call' = [fn |-> "admin"]
    /\ UNCHANGED <<IMPORT_SESSION_COUNTER, IMPORT_SESSIONS, IMPORT_PROGRESS,
                   req, job, poll, resp, issued, served, quota, hist, held, clock,
                   session_store>>

NextMaintenance ==
    \/ \E client \in 1..MaxClients, path \in RequestPaths,
          enable_param \in EnableValues, now \in 0..MaxClock :
           MaintenanceRequest(client, path, enable_param, now)
    \/ \E payload \in MaintenanceRows : AdminSaveConfig(payload)

----------------------------------------------------------------------------

NextCreate ==
    \/ \E r \in Requests : CreateBadRequest(r)
    \/ \E r \in Requests, sel \in SelectedPoolIds : CreateNextId(r, sel)
    \/ \E r \in Requests : CreateStore(r)
    \/ \E r \in Requests : CreateStart(r)

NextJob ==
    \/ \E sid \in SessionIds : JobBegin(sid)
    \/ \E sid \in SessionIds : CharStart(sid)
    \/ \E sid \in SessionIds :
           \E r \in PageResponses(served < quota.pages, quota.pagelen) :
               FetchPage(sid, r)
    \/ \E sid \in SessionIds : CharDone(sid)
    \/ \E sid \in SessionIds, r \in PoolResponses : WeaponPoolsRequest(sid, r)
    \/ \E sid \in SessionIds : WeaponFeedStart(sid)
    \/ \E sid \in SessionIds : WeaponFeedDone(sid)
    \/ \E sid \in SessionIds : WeaponPoolStart(sid)
    \/ \E sid \in SessionIds : WeaponPoolDone(sid)
    \/ \E sid \in SessionIds : Progress92(sid)
    \/ \E sid \in SessionIds : Progress99(sid)
    \/ \E sid \in SessionIds : CommitDone(sid)
    \/ \E sid \in SessionIds : Progress100(sid)
    \/ \E sid \in SessionIds : CommitError(sid)
    \/ \E sid \in SessionIds : ProgressError(sid)

NextStatus ==
    \/ \E sid \in SessionIds : StatusReadSession(sid)
    \/ StatusRespond

NextProgress ==
    \/ \E sid \in ProgressIds, updates \in ProgressArgs :
           SetProgressCall(sid, updates)
    \/ \E sid \in ProgressIds : GetProgressCall(sid)

NextStore ==
    \/ \E now \in 0..MaxClock, server_id \in {"3", "4"} :
           StoreCreate(now, server_id)
    \/ \E sid \in SessionIds, pulls \in StorePullLists, keep \in BOOLEAN :
           StoreSet(sid, pulls, keep)
    \/ \E sid \in SessionIds : StoreGet(sid)
    \/ \E k \in SessionIds : StoreAll(k)
    \/ StoreLatest
    \/ \E i \in 1..MaxHeld, m \in {"status", "append", "edit"} : Mutate(i, m)

\* The store is filled first, then history is exported and imported.
NextHistory ==
    \/ call = NoCall /\ StoreCreate(clock, "3")
    \/ call = NoCall /\ \E sid \in SessionIds, pulls \in StorePullLists :
           StoreSet(sid, pulls, FALSE)
    \/ ExportHistory
    \/ \E fn \in {"import_history", "cloud_auto_import_api"},
          payload \in Payloads : ImportHistory(fn, payload)
    \/ \E fn \in {"import_history", "cloud_auto_import_api"} :
           ImportExported(fn)

\* An import whose upstream, from some page request on, answers every page
\* request with records it has served before.
NextRefetch ==
    \/ call = NoCall /\ NextCreate
    \/ call = NoCall /\ NextJob
    \/ \E sid \in SessionIds :
           \E r \in {x \in PageResponses(TRUE, quota.pagelen) :
                        Classify(x) = "data"} :
               RefetchPage(sid, r)
    \/ Sleep

Next == NextCreate \/ NextJob \/ NextStatus

\* One import with its status polled.
Spec == Init /\ [][Next]_vars

\* One import against an upstream with more data.
SpecFetch == InitFetch /\ [][NextCreate \/ NextJob]_vars

\* Concurrent create_session requests, before their workers run.
SpecCreate == InitCreate /\ [][NextCreate]_vars

\* The progress tracker under arbitrary calls.
SpecProgress == InitProgress /\ [][NextProgress]_vars

\* The session store under direct calls.
SpecStore == InitStore /\ [][NextStore]_vars

\* The pity counter called once on any input.
SpecPity == InitPity /\ [][PityCall]_vars

\* The history codec over a small store.
SpecHistory == InitHistory /\ [][NextHistory]_vars

\* _normalize_pull_item called once on any upstream record.
SpecNormalize == InitNormalize /\ [][NormalizeCall]_vars

\* The version top-character stats called once.
SpecVersion == InitVersion /\ [][VersionCall]_vars

SpecMaintenance == InitMaintenance /\ [][NextMaintenance]_vars

\* One import against an upstream with more data, its session read while the
\* job runs.
SpecRead == InitRead /\ [][Next]_vars

\* _build_history_rows on every list of rarities.
SpecRows == InitRows /\ [][RowsCall]_vars

\* One import against an upstream that may ignore the cursor.  The worker
\* thread and the request threads keep running: weak fairness of the steps.
SpecRefetch == Init /\ [][NextRefetch]_vars /\ WF_vars(NextRefetch)

----------------------------------------------------------------------------
(* Properties. *)

Stored(sid) == sid \in DOMAIN IMPORT_SESSIONS
Done(sid) == Stored(sid) /\ IMPORT_SESSIONS[sid].status = "done"
Failed(sid) == Stored(sid) /\ IMPORT_SESSIONS[sid].status = "error"
RaisingKinds == {"raise", "badjson", "notobject"}

\* How many pulls of the list carry the upstream key <<poolId, seqId>>.
PullCount(pulls, key) ==
    Cardinality({i \in 1..Len(pulls) :
        pulls[i].pool_id = key[1] /\ pulls[i].seq_id = _to_int(key[2])})

\* C1: a record whose pool id and non-zero sequence id were served in more
\* than one fetched page is in the pulls of the completed session exactly
\* once.
C1_OverlapKeptOnce ==
    \A sid \in SessionIds :
        Done(sid) =>
            \A key \in hist[sid].twice :
                _to_int(key[2]) # 0 =>
                    PullCount(IMPORT_SESSIONS[sid].pulls, key) = 1

\* C2: every record without a sequence id that was served in a fetched page
\* is in the pulls of the completed session.
C2_SeqlessKept ==
    \A sid \in SessionIds :
        Done(sid) =>
            \A item \in hist[sid].fetched :
                item.seqId = "" =>
                    \E i \in 1..Len(IMPORT_SESSIONS[sid].pulls) :
                        /\ IMPORT_SESSIONS[sid].pulls[i].pool_id = item.poolId
                        /\ IMPORT_SESSIONS[sid].pulls[i].seq_id = 0

\* C3: once page k of a pagination run was answered with hasMore false, the
\* run has made exactly k requests and makes no other.
C3_StopsAtNoMore ==
    \A sid \in SessionIds :
        hist[sid].nomoreAt # 0 =>
            /\ hist[sid].reqs = hist[sid].nomoreAt
            /\ job[sid].pc \notin PagePcs

C3_Witness ==
    \E sid \in SessionIds :
        /\ hist[sid].nomoreAt = 2
        /\ hist[sid].reqs = 2
        /\ hist[sid].lastKind = "data"

\* C4: when an upstream request of an import raises, the job records the
\* exception; once it is committed the session has status error, the
\* exception text as error and no pulls, and the progress state ends with
\* status error and the same text.
C4_RaiseEndsInError ==
    \A sid \in SessionIds :
        /\ hist[sid].lastKind \in RaisingKinds =>
               /\ job[sid].pc \in {"fail", "failp", "finished"}
               /\ job[sid].exc = ExcText(hist[sid].lastKind)
        /\ (job[sid].pc \in {"failp", "finished"} /\ job[sid].exc # "") =>
               /\ Failed(sid)
               /\ IMPORT_SESSIONS[sid].error = job[sid].exc
               /\ IMPORT_SESSIONS[sid].pulls = <<>>
        /\ (job[sid].pc = "finished" /\ job[sid].exc # "") =>
               /\ sid \in DOMAIN IMPORT_PROGRESS
               /\ IMPORT_PROGRESS[sid].status = "error"
               /\ IMPORT_PROGRESS[sid].error = job[sid].exc

C4_Witness ==
    \E sid \in SessionIds :
        /\ job[sid].pc = "finished"
        /\ job[sid].exc = "ConnectionError"
        /\ hist[sid].fetched # {}
        /\ Failed(sid)

\* C5: a page answered with a status other than 200, a non-zero code or an
\* empty list ends its pagination run without an exception, the run
\* returning exactly what it had accumulated; a session only ends in error
\* after a request that raised.
C5_BenignEndsRun ==
    /\ [][\A sid \in SessionIds :
            (/\ hist'[sid].reqs = hist[sid].reqs + 1
             /\ hist'[sid].lastKind \in Benign) =>
                /\ job'[sid].run.out = job[sid].run.out
                /\ job'[sid].pc = AfterRun(job[sid].pc)
                /\ job'[sid].exc = ""
                /\ job[sid].pc = "wlast_page" =>
                       job'[sid].weapon_items = job[sid].run.out]_vars
    /\ [](\A sid \in SessionIds :
            Failed(sid) => hist[sid].lastKind \in RaisingKinds)

C5_Witness ==
    \E sid \in SessionIds :
        /\ hist[sid].benignData
        /\ Done(sid)
        /\ IMPORT_SESSIONS[sid].pulls # <<>>

\* C6: a page answered 200 with a body that is not JSON, or not the envelope
\* object, does not put the session in status error.
C6_MalformedIsEndOfData ==
    \A sid \in SessionIds :
        hist[sid].lastKind \in {"badjson", "notobject"} => ~Failed(sid)

\* C7: a session enters the store with status running and no pulls; once
\* its status is done or error, its status, error and pulls stay as they
\* are.
C7_RunningThenFrozen ==
    [][\A sid \in SessionIds :
          /\ (~Stored(sid) /\ sid \in DOMAIN IMPORT_SESSIONS') =>
                 /\ IMPORT_SESSIONS'[sid].status = "running"
                 /\ IMPORT_SESSIONS'[sid].pulls = <<>>
          /\ (Done(sid) \/ Failed(sid)) =>
                 /\ sid \in DOMAIN IMPORT_SESSIONS'
                 /\ IMPORT_SESSIONS'[sid].status = IMPORT_SESSIONS[sid].status
                 /\ IMPORT_SESSIONS'[sid].error = IMPORT_SESSIONS[sid].error
                 /\ IMPORT_SESSIONS'[sid].pulls = IMPORT_SESSIONS[sid].pulls]_vars

C7_Witness ==
    \E sid \in SessionIds :
        /\ Failed(sid)
        /\ job[sid].pc = "finished"
        /\ \E r \in resp : r.session_id = sid /\ r.status = "error"

\* C8: create_session requests that interleave get ids that are pairwise
\* distinct and strictly increasing in the order they are handed out, and
\* each stored session is the one its own request wrote.
C8_DistinctIncreasingIds ==
    /\ \A i, k \in 1..Len(issued) : i < k => issued[i] < issued[k]
    /\ \A r1, r2 \in SessionIds :
           (r1 # r2 /\ req[r1].sid # 0 /\ req[r2].sid # 0) =>
               req[r1].sid # req[r2].sid
    /\ \A r \in SessionIds :
           req[r].pc \in {"stored", "answered"} =>
               /\ Stored(req[r].sid)
               /\ IMPORT_SESSIONS[req[r].sid].id = req[r].sid
               /\ IMPORT_SESSIONS[req[r].sid].selected_pool_id = req[r].sel

C8_Witness ==
    \E r1, r2 \in SessionIds :
        /\ req[r1].pc = "allocated"
        /\ req[r2].pc = "stored"
        /\ req[r1].sid < req[r2].sid
        /\ Len(issued) = MaxRequests

\* C9: an import_status answer that reports status done reports percent
\* 100.
C9_DoneReports100 ==
    \A r \in resp : (r.code = 200 /\ r.status = "done") => r.progress = 100

C9_Witness ==
    \E r \in resp :
        /\ r.status = "done"
        /\ r.progress = 100
        /\ IMPORT_PROGRESS[r.session_id].progress < 100

\* C10: whatever integer percent _set_progress is given, the percent it
\* stores and the percent _get_progress returns lie in 0..100.
C10_PercentInRange ==
    /\ \A sid \in SessionIds :
           hist[sid].percentArg # {} =>
               /\ sid \in DOMAIN IMPORT_PROGRESS
               /\ "progress" \in DOMAIN IMPORT_PROGRESS[sid]
               /\ IMPORT_PROGRESS[sid].progress \in 0..100
    /\ \A r \in resp : r.progress \subseteq 0..100

C10_Witness ==
    /\ \E sid \in SessionIds :
           /\ hist[sid].percentArg = {250}
           /\ IMPORT_PROGRESS[sid].progress = 100
           /\ resp = {_get_progress(IMPORT_PROGRESS, sid)}
    /\ \E sid \in SessionIds :
           /\ hist[sid].percentArg = {-5}
           /\ IMPORT_PROGRESS[sid].progress = 0

\* C11: when a caller changes a session value that get, list or update
\* returned to it, the store, and so what any later read returns, stays as
\* it was.
C11_ReadsCopyOut ==
    [][(Len(held') = Len(held) /\ held' # held) =>
           IMPORT_SESSIONS' = IMPORT_SESSIONS]_vars

C11_Witness ==
    \E i \in 1..Len(held) :
        LET v == held[i].value
        IN  /\ v.status = "mutated"
            /\ v.pulls # <<>>
            /\ v.pulls[1] = MarkerPull
            /\ v.pulls[Len(v.pulls)] = MarkerPull
            /\ IMPORT_SESSIONS[v.id].status = "done"
            /\ IMPORT_SESSIONS[v.id].pulls = StorePulls

\* C12: the list holds every stored session, ordered by created_at
\* descending, and the latest-session accessor returns the session created
\* last.
C12_LatestIsLastCreated ==
    \A r \in resp :
        /\ r.kind = "list" =>
               /\ Len(r.value) = IMPORT_SESSION_COUNTER
               /\ \A i, k \in 1..Len(r.value) :
                      i < k => ~StrLt(r.value[i].created_at,
                                      r.value[k].created_at)
        /\ (r.kind = "latest" /\ IMPORT_SESSION_COUNTER > 0) =>
               r.value = {IMPORT_SESSIONS[IMPORT_SESSION_COUNTER]}

\* C13: current is the number of pulls before the first pull whose rarity
\* is in the reset set, the length of the list when there is none, and
\* remaining is max(hard_limit - current, 0).
C13_PityState ==
    \A r \in resp :
        LET resets == {i \in 1..Len(call.rarities) :
                          call.rarities[i] \in call.reset_values}
            first == CHOOSE i \in resets : \A k \in resets : i <= k
            expected == IF resets = {} THEN Len(call.rarities) ELSE first - 1
        IN  /\ r.current = expected
            /\ r.to_guarantee = IF call.hard_limit > expected
                                THEN call.hard_limit - expected ELSE 0

C13_Witness ==
    /\ call.rarities = <<4, 4, 6, 5, 4>>
    /\ call.reset_values = {6}
    /\ call.hard_limit = 80
    /\ resp = {[current |-> 2, to_guarantee |-> 78]}

\* The history codec: the import in progress and its answer.
ImportFns == {"import_history", "cloud_auto_import_api"}
Importing == call.fn \in ImportFns
NewSessions == DOMAIN IMPORT_SESSIONS \ DOMAIN call.before

\* C14: an import of a history payload adds its sessions to the session
\* store as new sessions: after the same payload was imported k times with
\* n sessions counted each time, the store holds k * n sessions it did not
\* hold before.
C14_ImportAddsSessions ==
    (Importing /\ call.fn = "import_history" /\ ~call.exported) =>
        \A r \in resp :
            r.level = "success" =>
                Cardinality(NewSessions) = call.times * r.sessions

\* C15: after an exported history is imported again, the store holds, for
\* every exported session, a new session with the same pulls.
C15_RoundTrip ==
    (Importing /\ call.exported) =>
        LET exported == call.payload.body.sessions.body
        IN  \A i \in 1..Len(exported) :
                \E sid \in NewSessions :
                    IMPORT_SESSIONS[sid].pulls =
                        [k \in 1..Len(exported[i].body.pulls.body) |->
                            exported[i].body.pulls.body[k].body]

\* A payload that is not an object, or an object with neither a sessions
\* list nor an items list.
Malformed(payload) ==
    \/ payload.kind # "dict"
    \/ /\ JGet(payload.body, "sessions").kind # "list"
       /\ JGet(payload.body, "items").kind # "list"

\* C16: an import of a malformed payload is answered with the bad-payload or
\* bad-format error, not with the generic error and not with a 500, and the
\* session store is what it was before the import.
C16_MalformedRejected ==
    (Importing /\ Malformed(call.payload)) =>
        /\ IMPORT_SESSIONS = call.before
        /\ \E r \in resp :
               /\ resp = {r}
               /\ r.level = "error"
               /\ r.code # 500
               /\ r.message # "view.settings.import_error"
               /\ r.details \in {"view.error.bad_payload",
                                 "view.error.bad_format"}

C16_Witness ==
    /\ Importing
    /\ call.payload.kind = "dict"
    /\ Malformed(call.payload)
    /\ call.before # EmptyDict
    /\ \E r \in resp : r.code = 400 /\ r.details = "view.error.bad_format"

\* The object entries of a list, and the pulls list of a session object.
Objects(entries) == {i \in 1..Len(entries) : entries[i].kind = "dict"}
PullsOf(entry) ==
    LET pulls == JGet(entry.body, "pulls")
        items == JGet(entry.body, "items")
    IN  IF pulls.kind = "list" THEN pulls.body
        ELSE IF items.kind = "list" THEN items.body
        ELSE <<>>
RECURSIVE ObjectPulls(_)
ObjectPulls(entries) ==
    IF entries = <<>> THEN 0
    ELSE (IF Head(entries).kind = "dict"
          THEN Cardinality(Objects(PullsOf(Head(entries)))) ELSE 0)
         + ObjectPulls(Tail(entries))

\* C17: an import of a payload with a sessions list succeeds whatever the
\* entries are, and its counts are the number of session objects in the
\* list and the number of pull objects in their pulls lists.
C17_NonObjectsSkipped ==
    (Importing /\ call.payload.kind = "dict"
        /\ JGet(call.payload.body, "sessions").kind = "list") =>
        \E r \in resp :
            /\ resp = {r}
            /\ r.level = "success"
            /\ r.sessions = Cardinality(Objects(call.payload.body.sessions.body))
            /\ r.pulls = ObjectPulls(call.payload.body.sessions.body)

C17_Witness ==
    /\ Importing
    /\ call.payload.kind = "dict"
    /\ JGet(call.payload.body, "sessions").kind = "list"
    /\ LET sessions == call.payload.body.sessions.body
       IN  /\ Len(sessions) = 2
           /\ sessions[1].kind = "str"
           /\ sessions[2].kind = "dict"
           /\ JGet(sessions[2].body, "pulls") =
                  JList(<<JStr("x"), JDict(HistoryPull)>>)
    /\ \E r \in resp : r.sessions = 1 /\ r.pulls = 1

\* C18: a payload with no sessions list and an items list is read as one
\* session with status done, those items as its pulls, the payload's server
\* id and language, "3" and "ru-ru" when the payload has none; a payload
\* with a sessions list is read as that list, its items key ignored.
C18_LegacyItems ==
    (Importing /\ call.payload.kind = "dict") =>
        LET payload == call.payload.body
            sessions == JGet(payload, "sessions")
            items == JGet(payload, "items")
            built == _build_session_payloads(payload)
        IN  /\ (sessions.kind # "list" /\ items.kind = "list") =>
                   /\ built.kind = "list"
                   /\ Len(built.body) = 1
                   /\ built.body[1].kind = "dict"
                   /\ built.body[1].body.status = JStr("done")
                   /\ built.body[1].body.pulls = items
                   /\ JGet(payload, "server_id") = JNone =>
                          built.body[1].body.server_id = JStr("3")
                   /\ JGet(payload, "server_id") \notin {JNone, JStr("")} =>
                          built.body[1].body.server_id = payload.server_id
                   /\ JGet(payload, "lang") = JNone =>
                          built.body[1].body.lang = JStr("ru-ru")
                   /\ JGet(payload, "lang") # JNone =>
                          built.body[1].body.lang = payload.lang
                   /\ \A r \in resp :
                          /\ r.level = "success"
                          /\ r.sessions = 1
                          /\ r.pulls = Cardinality(Objects(items.body))
            /\ sessions.kind = "list" =>
                   /\ built = sessions
                   /\ \A r \in resp :
                          /\ r.level = "success"
                          /\ r.sessions = Cardinality(Objects(sessions.body))
                          /\ r.pulls = ObjectPulls(sessions.body)

C18_Witness ==
    /\ Importing
    /\ call.payload.kind = "dict"
    /\ JGet(call.payload.body, "sessions") = JNone
    /\ JGet(call.payload.body, "server_id") = JNone
    /\ call.payload.body.items = JList(<<JDict(HistoryPull), JDict(HistoryPull)>>)
    /\ \E r \in resp : r.level = "success" /\ r.sessions = 1 /\ r.pulls = 2

\* C19: the normalization of a record returns for every record, with a
\* timestamp that is null or a non-zero number, rarity and sequence id 0
\* where the source value is missing or does not parse, and flags false
\* where they are missing.
C19_NormalizeTotal ==
    call.fn = "normalize" =>
        \A r \in resp :
            /\ r.kind = "ok"
            /\ 0 \notin r.body.gacha_ts
            /\ int(ItemGet(call.item, "rarity")).kind # "ok" => r.body.rarity = 0
            /\ int(ItemGet(call.item, "seqId")).kind # "ok" => r.body.seq_id = 0
            /\ ItemGet(call.item, "isFree").kind = "none" => ~r.body.is_free

\* The banners of the latest version, and the up to three of them with the
\* lowest banner numbers.
LatestBanners ==
    LET rows == {call.banners[i] : i \in 1..Len(call.banners)}
    IN  {b \in rows : \A c \in rows :
            ~VersionLt(VersionOf(b.pool_id), VersionOf(c.pool_id))}
LowestThree ==
    {b \in LatestBanners :
        Cardinality({c \in LatestBanners : c.pool_id.n < b.pool_id.n}) < 3}

\* C20: the stats have one row for the top character of each of the up to
\* three lowest-numbered banners of the latest version and no other row, and
\* total_top_drops is the sum of their drop counts; with four banners in the
\* version and one pull of each top character, that is 3 rows without the
\* fourth banner's character and a total of 3.
C20_FirstThreeBanners ==
    (call.fn = "version_stats" /\ call.banners # <<>>) =>
        \A r \in resp : \E stats \in r.value :
            /\ r.value = {stats}
            /\ Len(stats.stats) = Cardinality(LowestThree)
            /\ Len(stats.stats) <= 3
            /\ {stats.stats[i].character_code : i \in 1..Len(stats.stats)} =
                   {b.top_character : b \in LowestThree}
            /\ stats.total_top_drops = SumDrops(stats.stats)
            /\ (/\ Cardinality(LatestBanners) = 4
                /\ call.pulls = SubSeq(CandidatePulls, 1, 4)
                /\ VersionOf(CandidatePulls[1].pool_id) \in
                       {VersionOf(b.pool_id) : b \in LatestBanners})
               => /\ Len(stats.stats) = 3
                  /\ \A i \in 1..3 : stats.stats[i].character_code # "delta"
                  /\ stats.total_top_drops = 3

C20_Witness ==
    /\ call.fn = "version_stats"
    /\ Len(call.banners) = 4
    /\ call.banners[1].top_character = "delta"
    /\ Cardinality(LatestBanners) = 4
    /\ call.pulls = SubSeq(CandidatePulls, 1, 4)
    /\ \E r \in resp : \E stats \in r.value :
           /\ Len(stats.stats) = 3
           /\ stats.total_top_drops = 3

\* The pulls of a character tagged with a pool of a set.
DropsIn(character, pools) ==
    Cardinality({i \in 1..Len(call.pulls) :
        /\ call.pulls[i].char_name = character
        /\ call.pulls[i].pool_id \in pools})
LatestPools ==
    {Pool(b.pool_id.major, b.pool_id.minor, n) :
        b \in LatestBanners, n \in 1..MaxBanners + 1}

\* C21: the row of a tracked top character holds as drop_count its pulls
\* tagged with any pool of the latest version and as
\* current_banner_drop_count its pulls tagged with its own banner's pool;
\* with top characters alpha and bravo in the version and three pulls of
\* alpha tagged with bravo's pool, alpha has 3 and 0.
C21_CrossBannerCredit ==
    (call.fn = "version_stats" /\ call.banners # <<>>) =>
        \A r \in resp : \A stats \in r.value :
            /\ \A i \in 1..Len(stats.stats) :
                   \E b \in LowestThree :
                       /\ b.top_character = stats.stats[i].character_code
                       /\ stats.stats[i].drop_count =
                              DropsIn(b.top_character, LatestPools)
                       /\ stats.stats[i].current_banner_drop_count =
                              DropsIn(b.top_character, {b.pool_id})
            /\ (/\ {b.top_character : b \in LatestBanners} = {"alpha", "bravo"}
                /\ call.pulls = <<CandidatePulls[5], CandidatePulls[7],
                                  CandidatePulls[9]>>)
               => \E i \in 1..Len(stats.stats) :
                      /\ stats.stats[i].character_code = "alpha"
                      /\ stats.stats[i].drop_count = 3
                      /\ stats.stats[i].current_banner_drop_count = 0

C21_Witness ==
    /\ call.fn = "version_stats"
    /\ {b.top_character : b \in LatestBanners} = {"alpha", "bravo"}
    /\ call.pulls = <<CandidatePulls[5], CandidatePulls[7], CandidatePulls[9]>>
    /\ \E r \in resp : \E stats \in r.value : \E i \in 1..Len(stats.stats) :
           /\ stats.stats[i].character_code = "alpha"
           /\ stats.stats[i].drop_count = 3
           /\ stats.stats[i].current_banner_drop_count = 0

\* The paths the maintenance gate leaves open: static assets, the favicon,
\* the maintenance page and the bypass endpoint.
OpenPaths ==
    { <<"/", "static", "/", "app.css">>, <<"/", "favicon.ico">>,
      <<"/", "maintenance", "/">>, <<"/", "maintenance", "/", "bypass">> }

\* The last step was a request that found maintenance enabled with its launch
\* time not passed.
UnderMaintenance ==
    /\ call.fn = "middleware"
    /\ call.before.enabled
    /\ \A t \in call.before.launch_at_ms : call.now < t

\* C22: while maintenance is enabled and its launch time has not passed, a
\* request to a path other than static assets, the favicon, the maintenance
\* page and the bypass endpoint (so also /admin/) is served exactly when the
\* client's session holds the bypass flag and is otherwise redirected to the
\* maintenance page with the requested path as next; a bypass request with
\* enable=1 sets the flag and one with enable=0 removes it.
C22_MaintenanceGate ==
    /\ (UnderMaintenance /\ call.path \notin OpenPaths) =>
           IF call.bypass
           THEN call.response.kind = "view"
           ELSE /\ call.response.kind = "redirect"
                /\ call.response.location = <<"/", "maintenance", "/">>
                /\ call.response.next = call.path
    /\ (call.fn = "middleware"
            /\ call.path = <<"/", "maintenance", "/", "bypass">>) =>
           /\ call.enable = <<"1">> => session_store[call.client]
           /\ call.enable = <<"0">> => ~session_store[call.client]

C22_Witness ==
    /\ UnderMaintenance
    /\ call.path = <<"/", "admin", "/">>
    /\ ~call.bypass
    /\ call.response.kind = "redirect"
    /\ \E other \in 1..MaxClients : session_store[other]

\* The answer sends the client to the maintenance page, or is that page.
MaintenanceAnswer(response) ==
    \/ response.kind = "maintenance_html"
    \/ response.kind = "redirect"
           /\ response.location = <<"/", "maintenance", "/">>

\* The stored configuration as a request reads it.
StoredMaintenance(store) == normalize_maintenance_payload(store.row)

\* C23: a request that reads the stored configuration enabled with its launch
\* time passed persists enabled=false and is served normally; a request is
\* sent to the maintenance page only when the stored configuration it found
\* is enabled and not expired, the stored flag is enabled only by a save of
\* the configuration, and a request of a client without the bypass flag that
\* finds the stored flag enabled and not expired is sent there at once.
C23_AutoDisable ==
    [][ LET before == StoredMaintenance(app_json)
            expired == is_maintenance_expired(before, call'.now)
        IN  /\ call'.fn = "middleware" =>
                /\ (expired /\ ~_is_excluded_path(call'.path)) =>
                       /\ ~StoredMaintenance(app_json').enabled
                       /\ ~MaintenanceAnswer(call'.response)
                /\ MaintenanceAnswer(call'.response) => (before.enabled /\ ~expired)
                /\ (before.enabled /\ ~expired /\ ~session_store[call'.client]
                        /\ call'.path \notin OpenPaths) =>
                       MaintenanceAnswer(call'.response)
            /\ (~before.enabled /\ StoredMaintenance(app_json').enabled) =>
                   call'.fn = "admin"
      ]_vars

C23_Witness ==
    /\ call.fn = "middleware"
    /\ call.path = <<"/">>
    /\ ~call.bypass
    /\ is_maintenance_expired(call.before, call.now)
    /\ app_json.row # {}
    /\ ~StoredMaintenance(app_json).enabled
    /\ call.response.kind = "view"

\* C24: a read of a session never sees a partial pull set: the stored session
\* and every value a reader holds is either running with no pulls or terminal,
\* and a session turns terminal in the one step that also stores its final
\* pull list (the job's list on done, the empty list on error), after which
\* neither changes.
C24_NoPartialPulls ==
    [][ /\ \A sid \in DOMAIN IMPORT_SESSIONS' :
               LET after == IMPORT_SESSIONS'[sid]
               IN  \/ after.status = "running" /\ after.pulls = <<>>
                   \/ /\ after.status \in {"done", "error"}
                      /\ sid \in DOMAIN IMPORT_SESSIONS
                      /\ \/ IMPORT_SESSIONS[sid] = after
                         \/ /\ IMPORT_SESSIONS[sid].status = "running"
                            /\ after.status = "done"
                            /\ job[sid].pc = "commit"
                            /\ after.pulls = job[sid].pulls
                         \/ /\ IMPORT_SESSIONS[sid].status = "running"
                            /\ after.status = "error"
                            /\ after.pulls = <<>>
        /\ poll'.pc = "read" =>
               \/ poll'.session.status = "running" /\ poll'.session.pulls = <<>>
               \/ /\ poll'.session.status \in {"done", "error"}
                  /\ poll'.session = IMPORT_SESSIONS'[poll'.sid]
      ]_vars

\* A reader holds the running session with no pulls while the job has
\* already collected records of the first pool and is fetching more.
C24_Witness ==
    /\ poll.pc = "read"
    /\ poll.session.status = "running"
    /\ poll.session.pulls = <<>>
    /\ job[poll.sid].pc \in PagePcs
    /\ job[poll.sid].all_items # <<>>

\* The callbacks one aggregator made, in order.
KindCalls(log, kind) == SelectSeq(log, LAMBDA c : c.kind = kind)

\* start(1), done(1), start(2), done(2), ... with one total, or a prefix of it.
InOrder(log) ==
    \A i \in 1..Len(log) :
        /\ log[i].stage = IF i % 2 = 1 THEN "start" ELSE "done"
        /\ log[i].index = (i + 1) \div 2
        /\ log[i].total = log[1].total
        /\ log[i].index <= log[i].total

\* The start callback of the pool whose pages the job is requesting.
StartOfRun(j) ==
    CASE j.pc = "char_page" ->
             [kind |-> "character", stage |-> "start", index |-> j.idx,
              total |-> Len(CHARACTER_POOL_TYPES)]
      [] j.pc = "w_page" ->
             [kind |-> "weapon", stage |-> "start", index |-> j.idx,
              total |-> Len(j.pools)]
      [] j.pc = "wfb_page" ->
             [kind |-> "weapon", stage |-> "start", index |-> 1, total |-> 1]

C26_SingleGenericRun ==
    [][ \A sid \in SessionIds :
          hist'[sid].poolList = "none" =>
              LET runs == hist'[sid].weaponRuns
                  j == job[sid]
                  j2 == job'[sid]
              IN  /\ Len(runs) <= 1
                  /\ \A i \in 1..Len(runs) :
                         runs[i] = IMPORT_SESSIONS[sid].selected_pool_id
                  /\ (j.pc # "p92" /\ j2.pc = "p92") =>
                         Len(runs) = 1 /\ j2.weapon_items = j.run.out
      ]_vars

\* C27: pagination of one pool always terminates: a job that is requesting
\* the pages of a pool eventually leaves that pagination run, also when the
\* upstream keeps answering hasMore=true with records already seen.
C27_PaginationTerminates ==
    \A sid \in SessionIds :
        (job[sid].pc \in PagePcs) ~> (job[sid].pc \notin PagePcs)

\* C28: a fetched record with a pool id and a non-zero sequence id whose
\* (pool id, sequence id) pair was served only once is in the pulls of the
\* completed session; so two records of one character pool type that share a
\* sequence id and differ in pool id are both there.
C28_DistinctPairsKept ==
    \A sid \in SessionIds :
        Done(sid) =>
            \A item \in hist[sid].fetched :
                (Truthy(item.poolId) /\ _to_int(item.seqId) # 0
                     /\ KeyOf(item) \notin hist[sid].twice) =>
                    PullCount(IMPORT_SESSIONS[sid].pulls, KeyOf(item)) = 1

\* C29: the percent the progress tracker holds for a session never decreases
\* and the entry is never removed, from the first update of the create
\* request through the character pools, the weapon pools and the final done
\* or error update.
C29_PercentNeverDecreases ==
    [][ \A sid \in DOMAIN IMPORT_PROGRESS :
            /\ sid \in DOMAIN IMPORT_PROGRESS'
            /\ IMPORT_PROGRESS'[sid].progress >= IMPORT_PROGRESS[sid].progress
      ]_vars

\* An import failed in the second of two weapon pools and reports 100.
C29_Witness ==
    \E sid \in SessionIds :
        /\ Failed(sid)
        /\ sid \in DOMAIN IMPORT_PROGRESS
        /\ IMPORT_PROGRESS[sid].progress = 100
        /\ IMPORT_PROGRESS[sid].status = "error"
        /\ Len(KindCalls(hist[sid].calls, "weapon")) = 3

\* The rarities of the pulls older than pull i of a list that is most recent
\* first.
OlderThan(pulls, i) == SubSeq(pulls, i + 1, Len(pulls))

\* C30: the guarantee _build_history_rows gives a six-star pull is 1 plus
\* _pity_counter_until_any over the older pulls with reset set {6}, and the
\* guarantee it gives a five-star pull is 1 plus that counter with reset set
\* {5, 6}; there is one row per pull, in the order of the pulls.
C30_RowGuarantee ==
    (call.fn = "rows" /\ resp # {}) =>
        \A rows \in resp :
            /\ Len(rows) = Len(call.pulls)
            /\ \A i \in 1..Len(rows) :
                   /\ rows[i].rarity = call.pulls[i]
                   /\ rows[i].rarity = 6 =>
                          rows[i].guarantee = 1 + _pity_counter_until_any(
                              OlderThan(call.pulls, i), {6})
                   /\ rows[i].rarity = 5 =>
                          rows[i].guarantee = 1 + _pity_counter_until_any(
                              OlderThan(call.pulls, i), {5, 6})

\* Most recent first 6, 5, 4, 5, 6: the newest six-star counts through both
\* five-stars (4), the older five-star starts again after the six-star (1).
C30_Witness ==
    /\ call.fn = "rows"
    /\ call.pulls = <<6, 5, 4, 5, 6>>
    /\ \E rows \in resp :
           /\ rows[1].guarantee = 4
           /\ rows[2].guarantee = 2
           /\ rows[4].guarantee = 1
           /\ rows[5].guarantee = 1

============================================================================
